---- MODULE Spec2Model ----
(***************************************************************************)
(* Model of the search-algorithm animation demo (App.vue and               *)
(* priorityQueue.ts): the grid, the four frontiers, the binary heap, the   *)
(* stepper returned by Maze.solve and the controller around it.            *)
(*                                                                         *)
(* Coordinates (State) are 0-based pairs <<row, col>> as in the source;    *)
(* a MazeData is a sequence of rows, so cell (row, col) is                 *)
(* maze[row + 1][col + 1].  A Node carries an id standing for its object   *)
(* identity; parent is the id of the parent node, 0 for null.              *)
(***************************************************************************)
EXTENDS Integers, Sequences, FiniteSets, TLC

VARIABLES
  mazeData,       \* mazeData.value: rows of cells [type, state, label]
  numExplored,    \* numExplored.value
  solutionType,   \* solutionType.value
  demoState,      \* demoState.value
  timers,         \* ids of the interval timers that are active
  interval,       \* the timer handle held in `interval` (0: none yet)
  demoRunner,     \* TRUE iff demoRunner is defined
  currAlgorithm,  \* frontier class of currAlgorithm.value
  brush,          \* brush.value ("null" or a cell type)
  alertMsg,       \* message of the last error surfaced by start() ("" = none)
  m_start,        \* Maze._start of the maze the runner closes over
  m_goal,         \* Maze._goal
  m_height,       \* Maze._height
  m_width,        \* Maze._width
  frontierClass,  \* class of the frontier created by solve
  frontier,       \* the frontier's _frontier array / the heap's _heap array
  nodes,          \* every Node created so far, in creation order (id = index)
  node,           \* the node returned by the last frontier.remove()
  removeError,    \* error thrown by the last frontier.remove() ("" = none)
  numSteps,       \* number of calls of the step closure since solve
  fileContent,    \* text of the file picked for import or written by export
  fetches         \* the loadMaze calls so far, in order: url and whether it has completed

vars == <<mazeData, numExplored, solutionType, demoState, timers, interval,
          demoRunner, currAlgorithm, brush, alertMsg, m_start, m_goal,
          m_height, m_width, frontierClass, frontier, nodes, node,
          removeError, numSteps, fileContent, fetches>>

----------------------------------------------------------------------------
(* Bounds of the model *)

MaxCells == 8       \* SpecSearch: every valid grid of at most MaxCells cells
AppCells == 3       \* Spec: loadEmptyMaze with width * height <= AppCells
MaxFrontier == 4    \* SpecFrontier: number of nodes added to one frontier
MaxKey == 1         \* SpecFrontier: pathCost + manhattanDistance <= MaxKey
MaxTemplate == 3    \* SpecTemplate: number of characters of an imported file
MaxLoads == 3       \* SpecLoad: calls of loadMaze, the one at page setup included
GenCells == 6       \* SpecGen: genDFSMaze with width * height <= GenCells

----------------------------------------------------------------------------
(* Enumerations *)

MazeCellType == {"Space", "Wall", "Start", "Goal"}
MazeCellState == {"Unexplored", "Explored", "Frontier", "SolutionPath", "Unreachable"}
SolutionType == {"Pending", "NoSolution", "Continue", "FoundSolution"}
DemoState == {"Ready", "Running", "Paused", "Done"}
FrontierClasses == {"StackFrontier", "QueueFrontier", "GreedBestFrontier", "AStarFrontier"}

NoLabel == "undefined"    \* a cell whose optional label was never assigned

\* the value `undefined`, where a Node is expected
UndefinedNode == [id |-> 0, state |-> <<-1, -1>>, parent |-> 0, action |-> "null",
                  manhattanDistance |-> 0, pathCost |-> 0]

Abs(x) == IF x < 0 THEN -x ELSE x

----------------------------------------------------------------------------
(* Cells and grids *)

\* mutant: a cell is never given the state Explored
setCellStateButExplored(maze, state, cellState) ==
  IF cellState = "Explored" THEN maze
  ELSE [maze EXCEPT ![state[1] + 1][state[2] + 1].state = cellState]

setCellState(maze, state, cellState) ==
  [maze EXCEPT ![state[1] + 1][state[2] + 1].state = cellState]

setCellLabel(maze, state, label) ==
  [maze EXCEPT ![state[1] + 1][state[2] + 1].label = label]

getCellState(maze, state) == maze[state[1] + 1][state[2] + 1].state

getCellType(maze, state) == maze[state[1] + 1][state[2] + 1].type

\* mutant: only the rows are counted
calcManhattanDistanceOverRows(a, b) == Abs(a[1] - b[1])

calcManhattanDistance(a, b) == Abs(a[1] - b[1]) + Abs(a[2] - b[2])

\* the cell buildMaze pushes for one template character
TemplateCell(char) ==
  CASE char = "#" -> [type |-> "Wall", state |-> "Unreachable", label |-> NoLabel]
    [] char = "A" -> [type |-> "Start", state |-> "Unexplored", label |-> NoLabel]
    [] char = "B" -> [type |-> "Goal", state |-> "Unexplored", label |-> NoLabel]
    [] char = " " -> [type |-> "Space", state |-> "Unexplored", label |-> NoLabel]

TemplateChars == {"#", "A", "B", " "}

RECURSIVE splitLines(_, _, _)
\* template.split(/\r?\n/); a template is a sequence of one-character strings
splitLines(t, acc, cur) ==
  IF t = <<>> THEN Append(acc, cur)
  ELSE IF t[1] = "\n" THEN splitLines(Tail(t), Append(acc, cur), <<>>)
  ELSE IF t[1] = "\r" /\ Len(t) >= 2 /\ t[2] = "\n"
       THEN splitLines(Tail(Tail(t)), Append(acc, cur), <<>>)
  ELSE splitLines(Tail(t), acc, Append(cur, t[1]))

\* mutant: a character that is none of # A B space is read as a space
buildMazeLenient(template) ==
  LET strTemplates == splitLines(template, <<>>, <<>>)
  IN [error |-> "",
      maze |-> [i \in 1..Len(strTemplates) |->
                 [j \in 1..Len(strTemplates[i]) |->
                    IF strTemplates[i][j] \in TemplateChars
                    THEN TemplateCell(strTemplates[i][j])
                    ELSE TemplateCell(" ")]]]

\* buildMaze: error = "invalid template" when a character is not one of # A B space
buildMaze(template) ==
  LET strTemplates == splitLines(template, <<>>, <<>>)
      bad == \E i \in 1..Len(strTemplates) : \E j \in 1..Len(strTemplates[i]) :
                strTemplates[i][j] \notin TemplateChars
  IN IF bad THEN [error |-> "invalid template", maze |-> <<>>]
     ELSE [error |-> "",
           maze |-> [i \in 1..Len(strTemplates) |->
                      [j \in 1..Len(strTemplates[i]) |-> TemplateCell(strTemplates[i][j])]]]

----------------------------------------------------------------------------
(* Maze constructor *)

RECURSIVE scanMazeLastGoalWins(_, _, _, _, _)
\* mutant: a second Goal is not rejected, it replaces the first
scanMazeLastGoalWins(maze, height, width, k, acc) ==
  IF k >= height * width THEN acc
  ELSE LET i == k \div width
           j == k % width
           type == maze[i + 1][j + 1].type
       IN IF type = "Start"
          THEN IF acc.start # <<>>
               THEN [acc EXCEPT !.error = "only one start allowed"]
               ELSE scanMazeLastGoalWins(maze, height, width, k + 1,
                                         [acc EXCEPT !.start = <<i, j>>])
          ELSE IF type = "Goal"
          THEN scanMazeLastGoalWins(maze, height, width, k + 1,
                                    [acc EXCEPT !.goal = <<i, j>>])
          ELSE scanMazeLastGoalWins(maze, height, width, k + 1, acc)

RECURSIVE scanMaze(_, _, _, _, _)
\* the double loop of the constructor over k = i * width + j
scanMaze(maze, height, width, k, acc) ==
  IF k >= height * width THEN acc
  ELSE LET i == k \div width
           j == k % width
           type == maze[i + 1][j + 1].type
       IN IF type = "Start"
          THEN IF acc.start # <<>>
               THEN [acc EXCEPT !.error = "only one start allowed"]
               ELSE scanMaze(maze, height, width, k + 1, [acc EXCEPT !.start = <<i, j>>])
          ELSE IF type = "Goal"
          THEN IF acc.goal # <<>>
               THEN [acc EXCEPT !.error = "only one goal allowed"]
               ELSE scanMaze(maze, height, width, k + 1, [acc EXCEPT !.goal = <<i, j>>])
          ELSE scanMaze(maze, height, width, k + 1, acc)

\* mutant: the error found by the scan is dropped
MazeConstructorIgnoringScanError(maze) ==
  LET height == Len(maze)
      width == Len(maze[1])
      acc == scanMaze(maze, height, width, 0, [error |-> "", start |-> <<>>, goal |-> <<>>])
      error == IF acc.start = <<>> THEN "no start"
               ELSE IF acc.goal = <<>> THEN "no goal"
               ELSE ""
  IN [error |-> error, start |-> acc.start, goal |-> acc.goal,
      height |-> height, width |-> width]

\* new Maze(maze, numExplored, solutionType): the fields it sets, or the error it throws
MazeConstructor(maze) ==
  LET height == Len(maze)
      width == Len(maze[1])
      acc == scanMaze(maze, height, width, 0, [error |-> "", start |-> <<>>, goal |-> <<>>])
      error == IF acc.error # "" THEN acc.error
               ELSE IF acc.start = <<>> THEN "no start"
               ELSE IF acc.goal = <<>> THEN "no goal"
               ELSE ""
  IN [error |-> error, start |-> acc.start, goal |-> acc.goal,
      height |-> height, width |-> width]

----------------------------------------------------------------------------
(* Maze.neighbors *)

candidates(state) ==
  << <<"Up", <<state[1] - 1, state[2]>> >>,
     <<"Down", <<state[1] + 1, state[2]>> >>,
     <<"Left", <<state[1], state[2] - 1>> >>,
     <<"Right", <<state[1], state[2] + 1>> >> >>

\* mutant: walls are not filtered out
candidateKeptThroughWalls(maze, height, width, candidate) ==
  LET row == candidate[2][1]
      col == candidate[2][2]
  IN IF row < 0 \/ row >= height THEN FALSE
     ELSE IF col < 0 \/ col >= width THEN FALSE
     ELSE TRUE

candidateKept(maze, height, width, candidate) ==
  LET row == candidate[2][1]
      col == candidate[2][2]
  IN IF row < 0 \/ row >= height THEN FALSE
     ELSE IF col < 0 \/ col >= width THEN FALSE
     ELSE maze[row + 1][col + 1].type # "Wall"

\* mutant: the move to the right is never offered
neighborsNeverRight(maze, height, width, state) ==
  SelectSeq(candidates(state),
            LAMBDA c : candidateKept(maze, height, width, c) /\ c[1] # "Right")

neighbors(maze, height, width, state) ==
  SelectSeq(candidates(state), LAMBDA c : candidateKept(maze, height, width, c))

----------------------------------------------------------------------------
(* PriorityQueue (priorityQueue.ts); heap index i is heap[i + 1] *)

PQparent(i) == ((i + 1) \div 2) - 1
PQleft(i) == (2 * i) + 1
PQright(i) == (i + 1) * 2

PQswap(heap, i, j) == [heap EXCEPT ![i + 1] = heap[j + 1], ![j + 1] = heap[i + 1]]

GreedBestComparator(a, b) == a.manhattanDistance < b.manhattanDistance

AStarF(n) == n.pathCost + n.manhattanDistance

AStarComparator(a, b) == AStarF(a) < AStarF(b)

\* the comparator bound by the frontier that owns the heap
comparator(class, a, b) ==
  IF class = "GreedBestFrontier" THEN GreedBestComparator(a, b) ELSE AStarComparator(a, b)

PQgreater(class, heap, i, j) == comparator(class, heap[i + 1], heap[j + 1])

RECURSIVE siftUpFrom(_, _, _)
siftUpFrom(class, heap, n) ==
  IF n > 0 /\ PQgreater(class, heap, n, PQparent(n))
  THEN siftUpFrom(class, PQswap(heap, n, PQparent(n)), PQparent(n))
  ELSE heap

\* mutant: the pushed element climbs one level at most
siftUpOneLevel(class, heap) ==
  IF Len(heap) - 1 > 0 /\ PQgreater(class, heap, Len(heap) - 1, PQparent(Len(heap) - 1))
  THEN PQswap(heap, Len(heap) - 1, PQparent(Len(heap) - 1))
  ELSE heap

siftUp(class, heap) == siftUpFrom(class, heap, Len(heap) - 1)

RECURSIVE siftDownFrom(_, _, _)
siftDownFrom(class, heap, n) ==
  LET size == Len(heap)
      l == PQleft(n)
      r == PQright(n)
  IN IF (l < size /\ PQgreater(class, heap, l, n)) \/ (r < size /\ PQgreater(class, heap, r, n))
     THEN LET maxChild == IF r < size /\ PQgreater(class, heap, r, l) THEN r ELSE l
          IN siftDownFrom(class, PQswap(heap, n, maxChild), maxChild)
     ELSE heap

\* mutant: pop leaves the swapped element at the root
siftDownOmitted(class, heap) == heap

siftDown(class, heap) == siftDownFrom(class, heap, 0)

PQpush(class, heap, value) == siftUp(class, Append(heap, value))

\* pop(): on an empty heap peek() is undefined and nothing is thrown
PQpop(class, heap) ==
  LET poppedValue == IF Len(heap) = 0 THEN UndefinedNode ELSE heap[1]
      bottom == Len(heap) - 1
      swapped == IF bottom > 0 THEN PQswap(heap, 0, bottom) ELSE heap
      shortened == IF Len(swapped) = 0 THEN swapped ELSE SubSeq(swapped, 1, Len(swapped) - 1)
  IN [value |-> poppedValue, heap |-> siftDown(class, shortened)]

----------------------------------------------------------------------------
(* The four frontiers *)

\* mutant: the node is put at the front of the array (unshift for push)
StackAddAtFront(fr, n) == <<n>> \o fr

StackAdd(fr, n) == Append(fr, n)

\* mutant: the queue takes the node in twice
QueueAddTwice(fr, n) == Append(Append(fr, n), n)

QueueAdd(fr, n) == Append(fr, n)
GreedBestAdd(fr, n) == PQpush("GreedBestFrontier", fr, n)
AStarAdd(fr, n) == PQpush("AStarFrontier", fr, n)

FrontierAdd(class, fr, n) ==
  CASE class = "StackFrontier" -> StackAdd(fr, n)
    [] class = "QueueFrontier" -> QueueAdd(fr, n)
    [] class = "GreedBestFrontier" -> GreedBestAdd(fr, n)
    [] class = "AStarFrontier" -> AStarAdd(fr, n)

\* mutant: the frontier never reports a state as held
containers_stateNever(fr, st) == FALSE

\* State.equals on the states of the nodes held
containers_state(fr, st) ==
  \E i \in 1..Len(fr) : fr[i].state[1] = st[1] /\ fr[i].state[2] = st[2]

\* mutant: a frontier holding its last node already counts as empty
FrontierEmptyAtLastNode(fr) == Len(fr) <= 1

FrontierEmpty(fr) == Len(fr) = 0

\* mutant: the stack gives up its oldest node (shift instead of pop)
StackRemoveOldest(fr) ==
  IF FrontierEmpty(fr)
  THEN [error |-> "empty frontier", node |-> UndefinedNode, frontier |-> fr]
  ELSE [error |-> "", node |-> Head(fr), frontier |-> Tail(fr)]

\* remove(): the node returned and the frontier left, or the error thrown
StackRemove(fr) ==
  IF FrontierEmpty(fr)
  THEN [error |-> "empty frontier", node |-> UndefinedNode, frontier |-> fr]
  ELSE [error |-> "", node |-> fr[Len(fr)], frontier |-> SubSeq(fr, 1, Len(fr) - 1)]

\* mutant: the queue gives up its newest node (pop instead of shift)
QueueRemoveNewest(fr) ==
  IF FrontierEmpty(fr)
  THEN [error |-> "empty frontier", node |-> UndefinedNode, frontier |-> fr]
  ELSE [error |-> "", node |-> fr[Len(fr)], frontier |-> SubSeq(fr, 1, Len(fr) - 1)]

QueueRemove(fr) ==
  IF FrontierEmpty(fr)
  THEN [error |-> "empty frontier", node |-> UndefinedNode, frontier |-> fr]
  ELSE [error |-> "", node |-> Head(fr), frontier |-> Tail(fr)]

GreedBestRemove(fr) ==
  LET r == PQpop("GreedBestFrontier", fr)
  IN [error |-> "", node |-> r.value, frontier |-> r.heap]

AStarRemove(fr) ==
  LET r == PQpop("AStarFrontier", fr)
  IN [error |-> "", node |-> r.value, frontier |-> r.heap]

FrontierRemove(class, fr) ==
  CASE class = "StackFrontier" -> StackRemove(fr)
    [] class = "QueueFrontier" -> QueueRemove(fr)
    [] class = "GreedBestFrontier" -> GreedBestRemove(fr)
    [] class = "AStarFrontier" -> AStarRemove(fr)

\* mutant: the A* frontier shows the heuristic alone, as the greedy one does
getLabelOfHeuristic(class, n) ==
  CASE class = "StackFrontier" -> ""
    [] class = "QueueFrontier" -> ""
    [] class = "GreedBestFrontier" -> ToString(n.manhattanDistance)
    [] class = "AStarFrontier" -> ToString(n.manhattanDistance)

getLabel(class, n) ==
  CASE class = "StackFrontier" -> ""
    [] class = "QueueFrontier" -> ""
    [] class = "GreedBestFrontier" -> ToString(n.manhattanDistance)
    [] class = "AStarFrontier" -> ToString(n.pathCost) \o "+" \o ToString(n.manhattanDistance)

----------------------------------------------------------------------------
(* Maze.solve and the step closure it returns *)

\* mutant: the node does not keep the parent it was created from
NewNodeWithoutParent(id, st, parent, action, manhattanDistance, pathCost) ==
  [id |-> id, state |-> st, parent |-> 0, action |-> action,
   manhattanDistance |-> manhattanDistance, pathCost |-> pathCost]

NewNode(id, st, parent, action, manhattanDistance, pathCost) ==
  [id |-> id, state |-> st, parent |-> parent, action |-> action,
   manhattanDistance |-> manhattanDistance, pathCost |-> pathCost]

\* the world: one record holding every variable, so that handlers compose
World ==
  [mazeData |-> mazeData, numExplored |-> numExplored, solutionType |-> solutionType,
   demoState |-> demoState, timers |-> timers, interval |-> interval,
   demoRunner |-> demoRunner, currAlgorithm |-> currAlgorithm, brush |-> brush,
   alertMsg |-> alertMsg, m_start |-> m_start, m_goal |-> m_goal,
   m_height |-> m_height, m_width |-> m_width, frontierClass |-> frontierClass,
   frontier |-> frontier, nodes |-> nodes, node |-> node,
   removeError |-> removeError, numSteps |-> numSteps, fileContent |-> fileContent,
   fetches |-> fetches]

Install(w) ==
  /\ mazeData' = w.mazeData
  /\ numExplored' = w.numExplored
  /\ solutionType' = w.solutionType
  /\ demoState' = w.demoState
  /\ timers' = w.timers
  /\ interval' = w.interval
  /\ demoRunner' = w.demoRunner
  /\ currAlgorithm' = w.currAlgorithm
  /\ brush' = w.brush
  /\ alertMsg' = w.alertMsg
  /\ m_start' = w.m_start
  /\ m_goal' = w.m_goal
  /\ m_height' = w.m_height
  /\ m_width' = w.m_width
  /\ frontierClass' = w.frontierClass
  /\ frontier' = w.frontier
  /\ nodes' = w.nodes
  /\ node' = w.node
  /\ removeError' = w.removeError
  /\ numSteps' = w.numSteps
  /\ fileContent' = w.fileContent
  /\ fetches' = w.fetches

\* mutant: the cell of the root is not given the state Frontier
solveLeavingStartUnmarked(w, class) ==
  LET root == NewNode(1, w.m_start, 0, "null",
                      calcManhattanDistance(w.m_start, w.m_goal), 0)
  IN [w EXCEPT !.frontierClass = class,
               !.frontier = FrontierAdd(class, <<>>, root),
               !.nodes = <<root>>,
               !.node = UndefinedNode,
               !.removeError = "",
               !.numSteps = 0,
               !.numExplored = 0,
               !.solutionType = "Continue"]

\* solve(frontierClass), lines 292-297, on a world whose Maze fields are set
solve(w, class) ==
  LET root == NewNode(1, w.m_start, 0, "null",
                      calcManhattanDistance(w.m_start, w.m_goal), 0)
  IN [w EXCEPT !.frontierClass = class,
               !.frontier = FrontierAdd(class, <<>>, root),
               !.nodes = <<root>>,
               !.node = UndefinedNode,
               !.removeError = "",
               !.numSteps = 0,
               !.mazeData = setCellState(w.mazeData, w.m_start, "Frontier"),
               !.numExplored = 0,
               !.solutionType = "Continue"]

\* mutant: the walk stops one node short of the root
markSolutionPathSkippingRoot(maze, allNodes, n) ==
  LET RECURSIVE walk(_, _)
      walk(m, k) ==
        IF k.parent # 0
        THEN walk(setCellState(m, k.state, "SolutionPath"), allNodes[k.parent])
        ELSE m
  IN walk(maze, n)

RECURSIVE markSolutionPath(_, _, _)
\* lines 309-315: mark the node's cell, then every ancestor's
markSolutionPath(maze, allNodes, n) ==
  LET marked == setCellState(maze, n.state, "SolutionPath")
  IN IF n.parent # 0 THEN markSolutionPath(marked, allNodes, allNodes[n.parent]) ELSE marked

\* mutant: a state is re-added although its cell is already Explored
shouldAddIgnoringExplored(fr, maze, st) == ~containers_state(fr, st)

\* the condition of line 323
shouldAdd(fr, maze, st) ==
  ~containers_state(fr, st) /\ getCellState(maze, st) # "Explored"

\* mutant: the child's cell is labelled but not given the state Frontier
addChildNotMarked(w, n, action, st) ==
  LET child == NewNode(Len(w.nodes) + 1, st, n.id, action,
                       calcManhattanDistance(st, w.m_goal), n.pathCost + 1)
      labelled == setCellLabel(w.mazeData, child.state, getLabel(w.frontierClass, child))
  IN [w EXCEPT !.frontier = FrontierAdd(w.frontierClass, w.frontier, child),
               !.nodes = Append(w.nodes, child),
               !.mazeData = labelled]

\* lines 324-327 for one neighbor
addChild(w, n, action, st) ==
  LET child == NewNode(Len(w.nodes) + 1, st, n.id, action,
                       calcManhattanDistance(st, w.m_goal), n.pathCost + 1)
      labelled == setCellLabel(w.mazeData, child.state, getLabel(w.frontierClass, child))
  IN [w EXCEPT !.frontier = FrontierAdd(w.frontierClass, w.frontier, child),
               !.nodes = Append(w.nodes, child),
               !.mazeData = setCellState(labelled, st, "Frontier")]

RECURSIVE expandSkippingLast(_, _, _, _)
\* mutant: the loop stops one neighbor early
expandSkippingLast(w, n, nbrs, k) ==
  IF k >= Len(nbrs) THEN w
  ELSE IF shouldAdd(w.frontier, w.mazeData, nbrs[k][2])
       THEN expandSkippingLast(addChild(w, n, nbrs[k][1], nbrs[k][2]), n, nbrs, k + 1)
       ELSE expandSkippingLast(w, n, nbrs, k + 1)

RECURSIVE expand(_, _, _, _)
\* the loop of lines 322-329 from the k-th neighbor on
expand(w, n, nbrs, k) ==
  IF k > Len(nbrs) THEN w
  ELSE IF shouldAdd(w.frontier, w.mazeData, nbrs[k][2])
       THEN expand(addChild(w, n, nbrs[k][1], nbrs[k][2]), n, nbrs, k + 1)
       ELSE expand(w, n, nbrs, k + 1)

\* mutant: the goal node is removed without being counted as explored
solveNextNotCountingGoal(w) ==
  LET counted == [w EXCEPT !.numSteps = w.numSteps + 1]
  IN IF FrontierEmpty(w.frontier)
     THEN [counted EXCEPT !.solutionType = "NoSolution"]
     ELSE LET r == FrontierRemove(w.frontierClass, w.frontier)
              removed == [counted EXCEPT !.frontier = r.frontier, !.node = r.node,
                                         !.removeError = r.error]
          IN IF r.error # "" THEN [counted EXCEPT !.removeError = r.error]
             ELSE IF r.node.state[1] = w.m_goal[1] /\ r.node.state[2] = w.m_goal[2]
             THEN [removed EXCEPT
                     !.mazeData = markSolutionPath(w.mazeData, w.nodes, r.node),
                     !.solutionType = "FoundSolution"]
             ELSE expand([removed EXCEPT
                            !.numExplored = w.numExplored + 1,
                            !.mazeData = setCellState(w.mazeData, r.node.state, "Explored")],
                         r.node,
                         neighbors(w.mazeData, w.m_height, w.m_width, r.node.state),
                         1)

\* the closure `next` returned by solve, lines 299-330
solveNext(w) ==
  LET counted == [w EXCEPT !.numSteps = w.numSteps + 1]
  IN IF FrontierEmpty(w.frontier)
     THEN [counted EXCEPT !.solutionType = "NoSolution"]
     ELSE LET r == FrontierRemove(w.frontierClass, w.frontier)
              removed == [counted EXCEPT !.frontier = r.frontier, !.node = r.node,
                                         !.removeError = r.error,
                                         !.numExplored = w.numExplored + 1]
          IN IF r.error # "" THEN [counted EXCEPT !.removeError = r.error]
             ELSE IF r.node.state[1] = w.m_goal[1] /\ r.node.state[2] = w.m_goal[2]
             THEN [removed EXCEPT
                     !.mazeData = markSolutionPath(w.mazeData, w.nodes, r.node),
                     !.solutionType = "FoundSolution"]
             ELSE expand([removed EXCEPT
                            !.mazeData = setCellState(w.mazeData, r.node.state, "Explored")],
                         r.node,
                         neighbors(w.mazeData, w.m_height, w.m_width, r.node.state),
                         1)

----------------------------------------------------------------------------
(* The controller: start, pause, next, resume, reset and the editor *)

\* setInterval returns a handle that no active timer has
setInterval(w) ==
  LET id == CHOOSE i \in 1..(Cardinality(w.timers) + 1) : i \notin w.timers
  IN [w EXCEPT !.timers = w.timers \cup {id}, !.interval = id]

clearInterval(w) == [w EXCEPT !.timers = w.timers \ {w.interval}]

\* mutant: the runner steps without looking at the outcome
demoRunnerFnUnguarded(w) ==
  LET stepped == solveNext(w)
  IN IF stepped.solutionType # "Continue"
     THEN clearInterval([stepped EXCEPT !.demoState = "Done"])
     ELSE stepped

\* the closure assigned to demoRunner, lines 407-417
demoRunnerFn(w) ==
  LET stepped == IF w.solutionType = "Continue" THEN solveNext(w) ELSE w
  IN IF stepped.solutionType # "Continue"
     THEN clearInterval([stepped EXCEPT !.demoState = "Done"])
     ELSE stepped

\* doStart: thrown = the constructor's error, w = the world it leaves
doStart(w) ==
  LET mz == MazeConstructor(w.mazeData)
      entered == [w EXCEPT !.numExplored = 0, !.solutionType = "Pending"]
  IN IF mz.error # ""
     THEN [thrown |-> mz.error, w |-> entered]
     ELSE LET built == [entered EXCEPT !.m_start = mz.start, !.m_goal = mz.goal,
                                       !.m_height = mz.height, !.m_width = mz.width]
              solved == solve(built, w.currAlgorithm)
              running == [solved EXCEPT !.demoState = "Running", !.demoRunner = TRUE]
          IN [thrown |-> "", w |-> [setInterval(running) EXCEPT !.brush = "null"]]

start(w) ==
  LET r == doStart(w)
  IN IF r.thrown # "" THEN [r.w EXCEPT !.alertMsg = r.thrown] ELSE r.w

\* mutant: pausing leaves the interval timer armed
pauseKeepingTimer(w) == [w EXCEPT !.demoState = "Paused"]

pause(w) == clearInterval([w EXCEPT !.demoState = "Paused"])

\* mutant: Next calls the stepper itself instead of the runner around it
nextCallingTheStepper(w) == IF w.demoRunner THEN solveNext(w) ELSE pause(start(w))

next(w) == IF w.demoRunner THEN demoRunnerFn(w) ELSE pause(start(w))

\* mutant: resuming starts the search over instead of re-arming the timer
resumeRestarting(w) ==
  IF w.demoRunner
  THEN start(clearInterval(w))
  ELSE w

resume(w) ==
  IF w.demoRunner
  THEN setInterval([clearInterval(w) EXCEPT !.demoState = "Running"])
  ELSE w

\* mutant: the label of a cell survives the reset
resetCellKeepingLabel(cell) ==
  [cell EXCEPT !.state = IF cell.type = "Wall" THEN "Unreachable" ELSE "Unexplored"]

\* the body of the forEach of lines 448-453
resetCell(cell) ==
  [cell EXCEPT !.state = IF cell.type = "Wall" THEN "Unreachable" ELSE "Unexplored",
               !.label = ""]

\* reset, lines 445-459; the closure dropped with demoRunner is cleared
reset(w) ==
  LET cleared == clearInterval(w)
  IN [cleared EXCEPT
        !.mazeData = [i \in 1..Len(w.mazeData) |->
                       [j \in 1..Len(w.mazeData[i]) |-> resetCell(w.mazeData[i][j])]],
        !.numExplored = 0,
        !.solutionType = "Pending",
        !.demoState = "Ready",
        !.demoRunner = FALSE,
        !.m_start = <<>>, !.m_goal = <<>>, !.m_height = 0, !.m_width = 0,
        !.frontierClass = "none", !.frontier = <<>>, !.nodes = <<>>,
        !.node = UndefinedNode, !.removeError = "", !.numSteps = 0]

onAlgorithmChange(w, class) == reset([w EXCEPT !.currAlgorithm = class])

\* mutant: the grid is replaced without reset being called first
updateMazeFromTemplateWithoutReset(w, template) ==
  LET built == buildMaze(template)
  IN IF built.error # "" THEN w ELSE [w EXCEPT !.mazeData = built.maze]

\* updateMazeFromTemplate: buildMaze throws after reset has run
updateMazeFromTemplate(w, template) ==
  LET built == buildMaze(template)
  IN IF built.error # "" THEN reset(w) ELSE [reset(w) EXCEPT !.mazeData = built.maze]

RECURSIVE repeat(_, _)
repeat(str, count) == IF count <= 0 THEN <<>> ELSE str \o repeat(str, count - 1)

loadEmptyMaze(w, width, height) ==
  LET rowTemplate == repeat(<<" ">>, width) \o <<"\n">>
      repeated == repeat(rowTemplate, height)
      mazeTemplate == SubSeq(repeated, 1, Len(repeated) - 1)
  IN updateMazeFromTemplate(w, mazeTemplate)

\* mutant: the brush sets the type of the cell and leaves its state
drawCellKeepingState(w, i, j) ==
  IF w.demoState = "Ready" /\ w.brush # "null"
  THEN [w EXCEPT !.mazeData[i][j].type = w.brush]
  ELSE w

drawCell(w, i, j) ==
  IF w.demoState = "Ready" /\ w.brush # "null"
  THEN [w EXCEPT !.mazeData[i][j].state =
                    IF w.brush = "Wall" THEN "Unreachable" ELSE "Unexplored",
                 !.mazeData[i][j].type = w.brush]
  ELSE w

----------------------------------------------------------------------------
(* genDFSMaze under every outcome of Math.random *)

\* While genDFSMaze carves, a cell of its local maze is either the copy of the
\* Wall cell it was created as or has been made Space and Unexplored: the local
\* maze is held as the set `spaces` of the coordinates of the latter, and
\* spaceCells as the sequence of the coordinates of the cell objects pushed.

\* every order shuffle can leave an array in (Fisher-Yates reaches each permutation)
shuffle(array) ==
  {[i \in 1..Len(array) |-> array[f[i]]] : f \in Permutations(1..Len(array))}

\* cell.type = Space; cell.state = Unexplored; spaceCells.push(cell)
carveCell(st, row, col) ==
  [spaces |-> st.spaces \cup {<<row, col>>},
   spaceCells |-> Append(st.spaceCells, <<row, col>>)]

\* line 621 and shuffle(directions): a direction outside the grid fails the test
\* of line 625 wherever the shuffle puts it, so only the order of those inside
\* is kept
shuffledDirections(width, height, row, col) ==
  LET directions == <<(<<row - 2, col>>), <<row + 2, col>>, <<row, col - 2>>, <<row, col + 2>> >>
  IN {SelectSeq(shuffled, LAMBDA d : /\ d[1] >= 0 /\ d[1] < height
                                     /\ d[2] >= 0 /\ d[2] < width) :
        shuffled \in shuffle(directions)}

RECURSIVE carve_path(_, _, _, _, _)
RECURSIVE carveLoop(_, _, _, _, _, _)
\* the for loop of lines 624-638 over the directions that are left, in order:
\* the set of states (spaces, spaceCells) it can end in
carveLoop(width, height, st, row, col, directions) ==
  IF directions = <<>> THEN {st}
  ELSE LET drow == directions[1][1]
           dcol == directions[1][2]
       IN IF <<drow, dcol>> \notin st.spaces
          THEN LET nextCell == carveCell(st, drow, dcol)
                   middle == carveCell(nextCell, (drow + row) \div 2, (dcol + col) \div 2)
               IN UNION {carveLoop(width, height, after, row, col, Tail(directions)) :
                           after \in carve_path(width, height, middle, drow, dcol)}
          ELSE carveLoop(width, height, st, row, col, Tail(directions))

\* carve_path(row, col, spaceCells): the states it can return in
carve_path(width, height, st, row, col) ==
  UNION {carveLoop(width, height, st, row, col, directions) :
           directions \in shuffledDirections(width, height, row, col)}

\* the maze handed over, lines 610-618 and 646-650: the initial cell becomes
\* Space, then spaceCells[0] Start, then spaceCells[1] Goal, first and second
\* being the cells that the shuffle put there
designate(width, height, spaces, startRow, startCol, first, second) ==
  [i \in 1..height |-> [j \in 1..width |->
     LET here == <<i - 1, j - 1>>
         made == here \in spaces \cup {<<startRow, startCol>>}
     IN [type |-> IF here = second THEN "Goal"
                  ELSE IF here = first THEN "Start"
                  ELSE IF made THEN "Space" ELSE "Wall",
         state |-> IF made THEN "Unexplored" ELSE "Unreachable",
         label |-> NoLabel]]]

\* what can follow carve_path returning in state st: the grids handed over, or the
\* TypeError of spaceCells[0].type / spaceCells[1].type on a missing element; of
\* the shuffled spaceCells only the first two elements matter
genDFSMazeAfterCarving(width, height, st, startRow, startCol) ==
  IF Len(st.spaceCells) < 2
  THEN {[error |-> "TypeError", maze |-> <<>>]}
  ELSE {[error |-> "",
         maze |-> designate(width, height, st.spaces, startRow, startCol,
                            st.spaceCells[k[1]], st.spaceCells[k[2]])] :
          k \in {p \in (1..Len(st.spaceCells)) \X (1..Len(st.spaceCells)) : p[1] # p[2]}}

\* lines 640-650 for one initial cell
genDFSMazeFrom(width, height, startRow, startCol) ==
  UNION {genDFSMazeAfterCarving(width, height, st, startRow, startCol) :
           st \in carve_path(width, height, [spaces |-> {}, spaceCells |-> <<>>],
                             startRow, startCol)}

\* genDFSMaze(width, height): the outcomes over every choice of Math.random
genDFSMaze(width, height) ==
  UNION {genDFSMazeFrom(width, height, startRow, startCol) :
           startRow \in 0..(height - 1), startCol \in 0..(width - 1)}

----------------------------------------------------------------------------
(* Actions: the events the page delivers, under the template's v-if/disabled *)

\* the world on entry of a handler: no error surfaced by it yet
Entry == [World EXCEPT !.alertMsg = ""]

StartClick == demoState = "Ready" /\ Install(start(Entry))

PauseClick == demoState = "Running" /\ Install(pause(Entry))

ResumeClick == demoState = "Paused" /\ Install(resume(Entry))

NextClick == demoState \in {"Ready", "Paused"} /\ Install(next(Entry))

ResetClick == Install(reset(Entry))

TimerTick == timers # {} /\ Install(demoRunnerFn(Entry))

AlgorithmClick == \E class \in FrontierClasses : Install(onAlgorithmChange(Entry, class))

BrushSelect ==
  /\ demoState = "Ready"
  /\ \E b \in MazeCellType \cup {"null"} : Install([Entry EXCEPT !.brush = b])

CellMouseDown ==
  \E i \in 1..Len(mazeData) : \E j \in 1..Len(mazeData[i]) : Install(drawCell(Entry, i, j))

NewEmptyMazeClick ==
  \E width \in 1..AppCells : \E height \in 1..AppCells :
     /\ width * height <= AppCells
     /\ Install(loadEmptyMaze(Entry, width, height))

\* the button of line 806 with mazeWidth * mazeHeight <= cells: reset() and
\* mazeData.value = maze are reached only when nothing was thrown before them
GenRandomMaze(cells) ==
  \E width \in 1..cells : \E height \in 1..cells :
     /\ width * height <= cells
     /\ \E outcome \in genDFSMaze(width, height) :
          IF outcome.error # ""
          THEN Install(Entry)
          ELSE Install([reset(Entry) EXCEPT !.mazeData = outcome.maze])

----------------------------------------------------------------------------
(* Spec: the page from its initial state *)

Idle ==
  /\ numExplored = 0
  /\ solutionType = "Pending"
  /\ demoState = "Ready"
  /\ timers = {}
  /\ interval = 0
  /\ demoRunner = FALSE
  /\ brush = "null"
  /\ alertMsg = ""
  /\ m_start = <<>> /\ m_goal = <<>> /\ m_height = 0 /\ m_width = 0
  /\ frontierClass = "none"
  /\ frontier = <<>>
  /\ nodes = <<>>
  /\ node = UndefinedNode
  /\ removeError = ""
  /\ numSteps = 0

Init ==
  /\ mazeData = buildMaze(<<"A", "B">>).maze
  /\ currAlgorithm = "StackFrontier"
  /\ fileContent = <<>>
  /\ fetches = <<>>
  /\ Idle

Next ==
  \/ StartClick
  \/ PauseClick
  \/ ResumeClick
  \/ NextClick
  \/ ResetClick
  \/ TimerTick
  \/ AlgorithmClick
  \/ BrushSelect
  \/ CellMouseDown
  \/ NewEmptyMazeClick

Spec == Init /\ [][Next]_vars

----------------------------------------------------------------------------
(* SpecSearch: uninterrupted searches over every small valid grid *)

Cells(height, width) == (0..(height - 1)) \X (0..(width - 1))

\* the grid buildMaze yields for the template with A at s, B at g, # at walls
GridOf(height, width, s, g, walls) ==
  [i \in 1..height |-> [j \in 1..width |->
     TemplateCell(IF <<i - 1, j - 1>> = s THEN "A"
                  ELSE IF <<i - 1, j - 1>> = g THEN "B"
                  ELSE IF <<i - 1, j - 1>> \in walls THEN "#" ELSE " ")]]

\* a 3 x 5 maze with a short and a long way round
DetourMaze ==
  buildMaze(<<" ", " ", " ", "#", "B", "\n",
              "A", "#", " ", "#", " ", "\n",
              " ", " ", " ", " ", " ">>).maze

InitSearch ==
  /\ \/ \E height \in 1..MaxCells : \E width \in 1..MaxCells :
          /\ height * width <= MaxCells
          /\ \E s \in Cells(height, width) : \E g \in Cells(height, width) \ {s} :
                \E walls \in SUBSET (Cells(height, width) \ {s, g}) :
                   mazeData = GridOf(height, width, s, g, walls)
     \/ mazeData = DetourMaze
  /\ currAlgorithm \in FrontierClasses
  /\ fileContent = <<>>
  /\ fetches = <<>>
  /\ Idle

NextSearch ==
  \/ StartClick
  \/ TimerTick

SpecSearch == InitSearch /\ [][NextSearch]_vars

----------------------------------------------------------------------------
(* SpecStepping: the same grids searched step by step with the Next button *)

\* the first click runs start() and pause(), every later one the runner
NextStepping ==
  \/ NextClick

SpecStepping == InitSearch /\ [][NextStepping]_vars

----------------------------------------------------------------------------
(* SpecFrontier: one frontier of each class under arbitrary add and remove *)

InitFrontier ==
  /\ mazeData = buildMaze(<<"A", "B">>).maze
  /\ currAlgorithm = "StackFrontier"
  /\ numExplored = 0
  /\ solutionType = "Pending"
  /\ demoState = "Ready"
  /\ timers = {}
  /\ interval = 0
  /\ demoRunner = FALSE
  /\ brush = "null"
  /\ alertMsg = ""
  /\ m_start = <<>> /\ m_goal = <<>> /\ m_height = 0 /\ m_width = 0
  /\ frontierClass \in FrontierClasses
  /\ frontier = <<>>
  /\ nodes = <<>>
  /\ node = UndefinedNode
  /\ removeError = ""
  /\ numSteps = 0
  /\ fileContent = <<>>
  /\ fetches = <<>>

\* frontier.add(new Node(...)): the k-th node created lies on cell (0, k - 1)
FrontierAddCall ==
  /\ Len(nodes) < MaxFrontier
  /\ \E h \in 0..MaxKey : \E g \in 0..(MaxKey - h) :
       LET n == NewNode(Len(nodes) + 1, <<0, Len(nodes)>>, 0, "null", h, g)
       IN /\ frontier' = FrontierAdd(frontierClass, frontier, n)
          /\ nodes' = Append(nodes, n)
  /\ UNCHANGED <<mazeData, numExplored, solutionType, demoState, timers, interval,
                 demoRunner, currAlgorithm, brush, alertMsg, m_start, m_goal,
                 m_height, m_width, frontierClass, node, removeError, numSteps,
                 fileContent, fetches>>

\* frontier.remove(), on an empty frontier as well
FrontierRemoveCall ==
  /\ LET r == FrontierRemove(frontierClass, frontier)
     IN /\ frontier' = r.frontier
        /\ node' = r.node
        /\ removeError' = r.error
  /\ UNCHANGED <<mazeData, numExplored, solutionType, demoState, timers, interval,
                 demoRunner, currAlgorithm, brush, alertMsg, m_start, m_goal,
                 m_height, m_width, frontierClass, nodes, numSteps, fileContent,
                 fetches>>

NextFrontier ==
  \/ FrontierAddCall
  \/ FrontierRemoveCall

SpecFrontier == InitFrontier /\ [][NextFrontier]_vars

----------------------------------------------------------------------------
(* SpecTemplate: files imported into the page and exported from it *)

\* the string one cell is mapped to, lines 366-374 (no branch: undefined, joined as '')
cellToChar(cell) ==
  CASE cell.type = "Wall" -> <<"#">>
    [] cell.type = "Start" -> <<"A">>
    [] cell.type = "Goal" -> <<"B">>
    [] cell.type = "Space" -> <<" ">>
    [] OTHER -> <<>>

RECURSIVE join(_, _)
\* Array.prototype.join on a sequence of strings
join(parts, separator) ==
  IF parts = <<>> THEN <<>>
  ELSE IF Len(parts) = 1 THEN parts[1]
  ELSE parts[1] \o separator \o join(Tail(parts), separator)

\* mutant: every row is ended by a line feed instead of rows being joined by one
mazeToTemplateEndingEachRow(maze) ==
  join([i \in 1..Len(maze) |->
          join([j \in 1..Len(maze[i]) |-> cellToChar(maze[i][j])], <<>>) \o <<"\n">>],
       <<>>)

mazeToTemplate(maze) ==
  join([i \in 1..Len(maze) |->
          join([j \in 1..Len(maze[i]) |-> cellToChar(maze[i][j])], <<>>)],
       <<"\n">>)

\* the characters files are made of: the four of a template, line ends, and one other
FileChars == TemplateChars \cup {"\n", "\r", "x"}

FileContents == UNION {[1..n -> FileChars] : n \in 0..MaxTemplate}

\* reader.onload of importTemplate, with the text of the picked file
ReaderOnLoad == Install(updateMazeFromTemplate(Entry, fileContent))

\* exportTemplate: the downloaded file is the one picked for the next import
ExportClick == Install([Entry EXCEPT !.fileContent = mazeToTemplate(mazeData)])

InitTemplate ==
  /\ mazeData = buildMaze(<<"A", "B">>).maze
  /\ currAlgorithm = "StackFrontier"
  /\ fileContent \in FileContents
  /\ fetches = <<>>
  /\ Idle

NextTemplate ==
  \/ ReaderOnLoad
  \/ ExportClick

SpecTemplate == InitTemplate /\ [][NextTemplate]_vars

----------------------------------------------------------------------------
(* SpecGen: genDFSMaze under every outcome of Math.random *)

GenRandomMazeClick == GenRandomMaze(GenCells)

NextGen ==
  \/ GenRandomMazeClick

SpecGen == Init /\ [][NextGen]_vars

----------------------------------------------------------------------------
(* SpecLoad: preset mazes fetched while the page is in use *)

PresetUrls == {"mazes/default.txt", "mazes/long-and-short.txt"}

\* the text served for a preset; the files are stood in for by two small
\* templates that differ
PresetText(url) ==
  IF url = "mazes/default.txt"
  THEN <<"A", " ", "B">>
  ELSE <<"A", "#", "\n", " ", "B">>

\* loadMaze up to its first await: the request is sent and the handler returns
loadMazeCall(w, url) == [w EXCEPT !.fetches = Append(w.fetches, [url |-> url, done |-> FALSE])]

\* loadMaze after its awaits, for the k-th request: the text arrived
loadMazeResume(w, k) ==
  [updateMazeFromTemplate(w, PresetText(w.fetches[k].url)) EXCEPT !.fetches[k].done = TRUE]

LoadMazeClick ==
  /\ Len(fetches) < MaxLoads
  /\ \E url \in PresetUrls : Install(loadMazeCall(Entry, url))

\* the responses arrive in any order
FetchCompletes ==
  \E k \in 1..Len(fetches) : ~fetches[k].done /\ Install(loadMazeResume(Entry, k))

\* the page after setup: loadMaze(presetMazes[0][1]) of line 515 is in flight
InitLoad ==
  /\ mazeData = buildMaze(<<"A", "B">>).maze
  /\ currAlgorithm = "StackFrontier"
  /\ fileContent = <<>>
  /\ fetches = loadMazeCall([fetches |-> <<>>], "mazes/default.txt").fetches
  /\ Idle

NextLoad ==
  \/ LoadMazeClick
  \/ FetchCompletes
  \/ StartClick
  \/ TimerTick

SpecLoad == InitLoad /\ [][NextLoad]_vars

----------------------------------------------------------------------------
(* Vocabulary of the properties, independent of the operators above *)

GridCells(maze) == {<<i - 1, j - 1>> : i \in 1..Len(maze), j \in 1..Len(maze[1])}

TypeAt(maze, c) == maze[c[1] + 1][c[2] + 1].type

StateAt(maze, c) == maze[c[1] + 1][c[2] + 1].state

NonWallCells(maze) == {c \in GridCells(maze) : TypeAt(maze, c) # "Wall"}

CellsOfType(maze, type) == {c \in GridCells(maze) : TypeAt(maze, c) = type}

CellsInState(maze, cellState) == {c \in GridCells(maze) : StateAt(maze, c) = cellState}

Adjacent(a, b) == Abs(a[1] - b[1]) + Abs(a[2] - b[2]) = 1

RECURSIVE StepsToReach(_, _, _, _)
\* breadth-first layers over non-wall cells: the least number of moves, -1 if none
StepsToReach(maze, reached, target, k) ==
  IF target \in reached THEN k
  ELSE LET more == reached \cup {c \in NonWallCells(maze) : \E r \in reached : Adjacent(c, r)}
       IN IF more = reached THEN -1 ELSE StepsToReach(maze, more, target, k + 1)

ShortestPathLength(maze) ==
  LET s == CHOOSE c \in GridCells(maze) : TypeAt(maze, c) = "Start"
      g == CHOOSE c \in GridCells(maze) : TypeAt(maze, c) = "Goal"
  IN StepsToReach(maze, {s}, g, 0)

RECURSIVE ParentChain(_)
\* the states on the parent chain of n, from n to the root
ParentChain(n) ==
  IF n.parent = 0 THEN <<n.state>> ELSE <<n.state>> \o ParentChain(nodes[n.parent])

Terminal == solutionType \in {"FoundSolution", "NoSolution"}

----------------------------------------------------------------------------
(* Properties of the search (SpecSearch) *)

\* C1: on a grid with one Start and one Goal, under each of the four frontiers,
\* the stepper reaches FoundSolution or NoSolution within (number of non-wall
\* cells + 1) steps: while the outcome is still Continue fewer steps than that
\* have been made, and no step is made after the terminal one.
C1_TerminatesWithinBound ==
  demoRunner =>
    /\ numSteps <= Cardinality(NonWallCells(mazeData)) + 1
    /\ solutionType = "Continue" => numSteps <= Cardinality(NonWallCells(mazeData))
    /\ numSteps > Cardinality(NonWallCells(mazeData)) => Terminal

\* a search that ended after exactly as many steps as there are non-wall cells
C1_Witness ==
  /\ Terminal
  /\ numSteps = Cardinality(NonWallCells(mazeData))
  /\ numSteps >= 4

\* C2: with the Queue frontier, the path reconstructed at FoundSolution (the
\* parent chain of the popped goal node, the cells marked SolutionPath) has as
\* many edges as the least number of 4-neighbour non-wall moves from Start to Goal.
C2_QueueFindsShortestPath ==
  (frontierClass = "QueueFrontier" /\ solutionType = "FoundSolution") =>
    /\ Len(ParentChain(node)) - 1 = ShortestPathLength(mazeData)
    /\ Cardinality(CellsInState(mazeData, "SolutionPath")) - 1 = ShortestPathLength(mazeData)

\* a breadth-first search that found a path of at least four edges
C2_Witness ==
  /\ frontierClass = "QueueFrontier"
  /\ solutionType = "FoundSolution"
  /\ Len(ParentChain(node)) - 1 >= 4
  /\ Cardinality(NonWallCells(mazeData)) >= 8

\* C3: with the A* frontier, the path reconstructed at FoundSolution has as many
\* edges as the shortest path from Start to Goal.
C3_AStarFindsShortestPath ==
  (frontierClass = "AStarFrontier" /\ solutionType = "FoundSolution") =>
    Len(ParentChain(node)) - 1 = ShortestPathLength(mazeData)

\* C4: when the popped node's state is the Goal the outcome is FoundSolution and
\* the SolutionPath cells are exactly the cells of the node's parent chain, which
\* begins at the Goal cell, ends at the Start cell, holds no Wall cell, repeats
\* no cell and moves between 4-adjacent cells.
C4_SolutionPathIsParentChain ==
  demoRunner =>
    LET poppedGoal == node.id # 0 /\ TypeAt(mazeData, node.state) = "Goal"
        chain == ParentChain(node)
    IN /\ poppedGoal <=> solutionType = "FoundSolution"
       /\ poppedGoal =>
            /\ CellsInState(mazeData, "SolutionPath") = {chain[k] : k \in 1..Len(chain)}
            /\ TypeAt(mazeData, chain[1]) = "Goal"
            /\ TypeAt(mazeData, chain[Len(chain)]) = "Start"
            /\ \A k \in 1..Len(chain) : TypeAt(mazeData, chain[k]) # "Wall"
            /\ \A j \in 1..Len(chain) : \A k \in 1..Len(chain) : j # k => chain[j] # chain[k]
            /\ \A k \in 1..(Len(chain) - 1) : Adjacent(chain[k], chain[k + 1])

\* a found solution whose chain bends round a wall
C4_Witness ==
  /\ solutionType = "FoundSolution"
  /\ Len(ParentChain(node)) >= 4
  /\ Len(ParentChain(node)) - 1 > calcManhattanDistance(m_start, m_goal)

\* what C10 asks of the result of neighbors for one cell
NeighborsAsSpecified(maze, cell, result) ==
  LET target(a) == CASE a = "Up" -> <<cell[1] - 1, cell[2]>>
                     [] a = "Down" -> <<cell[1] + 1, cell[2]>>
                     [] a = "Left" -> <<cell[1], cell[2] - 1>>
                     [] a = "Right" -> <<cell[1], cell[2] + 1>>
      rank(a) == CASE a = "Up" -> 1 [] a = "Down" -> 2 [] a = "Left" -> 3 [] a = "Right" -> 4
      inside(c) == c[1] >= 0 /\ c[1] < Len(maze) /\ c[2] >= 0 /\ c[2] < Len(maze[1])
      wanted(a) == inside(target(a)) /\ TypeAt(maze, target(a)) # "Wall"
  IN /\ \A k \in 1..Len(result) :
          /\ result[k][1] \in {"Up", "Down", "Left", "Right"}
          /\ result[k][2] = target(result[k][1])
          /\ wanted(result[k][1])
     /\ \A a \in {"Up", "Down", "Left", "Right"} :
          wanted(a) => \E k \in 1..Len(result) : result[k][1] = a
     /\ \A k \in 1..(Len(result) - 1) : rank(result[k][1]) < rank(result[k + 1][1])

\* C10: for every cell of a rectangular grid, neighbors returns exactly the
\* candidates among Up, Down, Left, Right that lie inside the grid on a cell
\* that is not a Wall, each with its action, in the order Up, Down, Left, Right.
\* Checked for every cell of every grid a search starts from, and again for the
\* cell of every node a step expands, with the dimensions the Maze holds.
C10_NeighborsInBoundsNonWallInOrder ==
  /\ ~demoRunner =>
       \A cell \in GridCells(mazeData) :
          NeighborsAsSpecified(mazeData, cell,
                               neighbors(mazeData, Len(mazeData), Len(mazeData[1]), cell))
  /\ node.id # 0 =>
       NeighborsAsSpecified(mazeData, node.state,
                            neighbors(mazeData, m_height, m_width, node.state))

\* a step expanded a node that has a wall beside it, an edge of the grid beside
\* it, and two neighbors left
C10_Witness ==
  /\ node.id # 0
  /\ solutionType = "Continue"
  /\ Len(neighbors(mazeData, m_height, m_width, node.state)) = 2
  /\ \E c \in GridCells(mazeData) : Adjacent(c, node.state) /\ TypeAt(mazeData, c) = "Wall"
  /\ Cardinality({c \in GridCells(mazeData) : Adjacent(c, node.state)}) = 3

----------------------------------------------------------------------------
(* Properties of the controller (Spec) *)

\* the handlers that call reset
ResetInvoked == ResetClick \/ AlgorithmClick \/ NewEmptyMazeClick

OutcomeMoves ==
  {<<"Pending", "Continue">>, <<"Continue", "FoundSolution">>, <<"Continue", "NoSolution">>}

\* on a terminal outcome, a timer tick and a manual Next change nothing observable
TerminalFrozen ==
  Terminal =>
    /\ demoRunnerFn(Entry).solutionType = solutionType
    /\ demoRunnerFn(Entry).numExplored = numExplored
    /\ demoRunnerFn(Entry).mazeData = mazeData
    /\ next(Entry).solutionType = solutionType
    /\ next(Entry).numExplored = numExplored
    /\ next(Entry).mazeData = mazeData

OutcomeStep ==
  /\ solutionType' # solutionType =>
       \/ <<solutionType, solutionType'>> \in OutcomeMoves
       \/ ResetInvoked /\ solutionType' = "Pending"
  /\ (Terminal /\ ~ResetInvoked) =>
       /\ solutionType' = solutionType
       /\ numExplored' = numExplored
       /\ mazeData' = mazeData

\* C5: the outcome only moves Pending -> Continue -> FoundSolution or NoSolution;
\* once it is terminal, a timer tick or a manual Next leaves the outcome, the
\* explored-count and every cell's type, state and label as they are, and they
\* change again only when reset is invoked.
C5_OutcomeOrderAndFrozenWhenTerminal == [](TerminalFrozen) /\ [][OutcomeStep]_vars

\* a search that ended with a solution and stopped the controller
C5_Witness ==
  /\ solutionType = "FoundSolution"
  /\ demoState = "Done"
  /\ numExplored >= 3

ExactlyOneStartAndGoal(maze) ==
  /\ Cardinality(CellsOfType(maze, "Start")) = 1
  /\ Cardinality(CellsOfType(maze, "Goal")) = 1

TopologyErrors == {"only one start allowed", "only one goal allowed", "no start", "no goal"}

RejectedStartStep ==
  (~demoRunner /\ ~ExactlyOneStartAndGoal(mazeData) /\ (StartClick \/ NextClick)) =>
    /\ alertMsg' \in TopologyErrors
    /\ mazeData' = mazeData
    /\ numExplored' = 0
    /\ solutionType' # "Continue"
    /\ numSteps' = 0
    /\ frontier' = <<>>
    /\ ~demoRunner'

\* C6: starting a search on a grid with no Start, several Starts, no Goal or
\* several Goals raises the constructor's error before any step: no cell's
\* state or label changes, the explored-count is 0 and the outcome does not
\* become Continue; the outcome is Continue only on grids with one of each.
C6_InvalidGridRejectedAtConstruction ==
  [](solutionType = "Continue" => ExactlyOneStartAndGoal(mazeData))
  /\ [][RejectedStartStep]_vars

\* a start was refused on a grid with two Goal cells
C6_Witness ==
  /\ alertMsg = "only one goal allowed"
  /\ Cardinality(CellsOfType(mazeData, "Goal")) = 2
  /\ Cardinality(CellsOfType(mazeData, "Start")) = 1
  /\ solutionType = "Pending"

----------------------------------------------------------------------------
(* Properties of the frontiers (SpecFrontier) *)

FrontierIds(fr) == {fr[k].id : k \in 1..Len(fr)}

FrontierNodes(fr) == {fr[k] : k \in 1..Len(fr)}

\* remove took n, which was in fr, and left every other node
RemovedExactly(fr, n, left) ==
  /\ n \in FrontierNodes(fr)
  /\ Len(left) = Len(fr) - 1
  /\ FrontierNodes(left) = FrontierNodes(fr) \ {n}

RemoveOnEmptyStep ==
  (FrontierRemoveCall /\ frontier = <<>>) =>
    /\ removeError' = "empty frontier"
    /\ frontier' = <<>>

\* C7: for each of the four frontiers, remove() on an empty frontier fails with
\* an "empty frontier" error instead of returning a value, and the frontier
\* stays empty.
C7_RemoveOnEmptyFails == [][RemoveOnEmptyStep]_vars

LifoFifoStep ==
  (FrontierRemoveCall /\ frontier # <<>>) =>
    /\ frontierClass = "StackFrontier" =>
         /\ removeError' = ""
         /\ \A i \in FrontierIds(frontier) : i <= node'.id
         /\ RemovedExactly(frontier, node', frontier')
    /\ frontierClass = "QueueFrontier" =>
         /\ removeError' = ""
         /\ \A i \in FrontierIds(frontier) : i >= node'.id
         /\ RemovedExactly(frontier, node', frontier')

\* C8: after any sequence of add and remove, on a non-empty frontier
\* StackFrontier.remove returns the most recently added node still present and
\* QueueFrontier.remove the least recently added one; exactly that node leaves.
C8_StackLifoQueueFifo == [][LifoFifoStep]_vars

\* a queue that was given four nodes and has handed out the first two in order
C8_Witness ==
  /\ frontierClass = "QueueFrontier"
  /\ node.id = 2
  /\ FrontierIds(frontier) = {3, 4}

MinPriorityStep ==
  (FrontierRemoveCall /\ frontier # <<>>) =>
    /\ frontierClass = "GreedBestFrontier" =>
         /\ removeError' = ""
         /\ \A k \in 1..Len(frontier) :
              node'.manhattanDistance <= frontier[k].manhattanDistance
         /\ RemovedExactly(frontier, node', frontier')
    /\ frontierClass = "AStarFrontier" =>
         /\ removeError' = ""
         /\ \A k \in 1..Len(frontier) :
              node'.pathCost + node'.manhattanDistance
                <= frontier[k].pathCost + frontier[k].manhattanDistance
         /\ RemovedExactly(frontier, node', frontier')

\* C9: after any sequence of add and remove, on a non-empty frontier
\* GreedBestFrontier.remove returns a node of minimal Manhattan distance and
\* AStarFrontier.remove a node of minimal path cost + Manhattan distance among
\* the nodes in the frontier; exactly that node leaves.
C9_RemoveReturnsMinimum == [][MinPriorityStep]_vars

\* an A* frontier handed out a node that was added neither first nor last and
\* that is strictly better than the three it left behind
C9_Witness ==
  /\ frontierClass = "AStarFrontier"
  /\ node.id = 2
  /\ Len(frontier) = 3
  /\ \A k \in 1..Len(frontier) :
       frontier[k].pathCost + frontier[k].manhattanDistance
         > node.pathCost + node.manhattanDistance

----------------------------------------------------------------------------
(* Properties of reset, pause and resume (Spec) *)

\* what reset promises of the world `after`, given the world `before`
ResetPostcondition(before, after) ==
  /\ Len(after.mazeData) = Len(before.mazeData)
  /\ \A i \in 1..Len(before.mazeData) :
        /\ Len(after.mazeData[i]) = Len(before.mazeData[i])
        /\ \A j \in 1..Len(before.mazeData[i]) :
              LET old == before.mazeData[i][j]
                  new == after.mazeData[i][j]
              IN /\ new.type = old.type
                 /\ new.state = (IF old.type = "Wall" THEN "Unreachable" ELSE "Unexplored")
                 /\ new.label = ""
  /\ after.numExplored = 0
  /\ after.solutionType = "Pending"

\* C11: reset, invoked in any state the page reaches (Ready, Running, Paused or
\* Done, after any number of steps), leaves every cell's type unchanged, sets the
\* state of every Wall cell to Unreachable and of every other cell to Unexplored,
\* clears every label, sets the explored-count to 0 and the outcome to Pending;
\* a second reset right after it changes nothing.
C11_ResetClearsSearchAndIsIdempotent ==
  LET once == reset(Entry)
      twice == reset(once)
  IN /\ ResetPostcondition(Entry, once)
     /\ twice = once

\* a reset has acted on a search that had labelled and explored cells: the page is
\* Ready with a timer handle left from the start, and every label is cleared
C11_Witness ==
  /\ demoState = "Ready"
  /\ interval # 0
  /\ currAlgorithm = "AStarFrontier"
  /\ \E i \in 1..Len(mazeData) : \E j \in 1..Len(mazeData[i]) :
        mazeData[i][j].type = "Wall"
  /\ \A i \in 1..Len(mazeData) : \A j \in 1..Len(mazeData[i]) :
        mazeData[i][j].label = ""

\* the search itself: frontier contents, cell states and labels, count and outcome
SearchState(w) == <<w.frontier, w.mazeData, w.numExplored, w.solutionType>>

\* the grid the running search was started on: no search writes the label of the
\* Start cell, and before a search all labels of a grid are equal (all absent
\* after buildMaze, all '' after reset)
GridAtStart ==
  [i \in 1..Len(mazeData) |-> [j \in 1..Len(mazeData[i]) |->
     [type |-> mazeData[i][j].type,
      state |-> IF mazeData[i][j].type = "Wall" THEN "Unreachable" ELSE "Unexplored",
      label |-> mazeData[m_start[1] + 1][m_start[2] + 1].label]]]

RECURSIVE Ticks(_, _)
\* k timer ticks in a row
Ticks(w, k) == IF k = 0 THEN w ELSE Ticks(demoRunnerFn(w), k - 1)

\* Start on the grid the search began on, then numSteps ticks and nothing else
UninterruptedRun ==
  Ticks(start([reset(Entry) EXCEPT !.mazeData = GridAtStart,
                                   !.currAlgorithm = frontierClass]),
        numSteps)

\* C12: pause and resume change nothing of the search (frontier contents, cell
\* states and labels, explored-count, outcome), and whatever interleaving of
\* pause, resume, manual Next and timer ticks led to a state with a runner, the
\* search state after its executed steps is the one that the same number of
\* uninterrupted steps produces on the same grid with the same strategy.
C12_PauseResumeDoNotAlterSearch ==
  /\ SearchState(pause(Entry)) = SearchState(Entry)
  /\ SearchState(resume(Entry)) = SearchState(Entry)
  /\ demoRunner => SearchState(Entry) = SearchState(UninterruptedRun)

\* a search paused after at least two executed steps and still under way
C12_Witness ==
  /\ demoRunner
  /\ demoState = "Paused"
  /\ solutionType = "Continue"
  /\ numSteps >= 2

----------------------------------------------------------------------------
(* Properties of templates (SpecTemplate) *)

\* C14: for every grid with at least one row whose cells have the types Space,
\* Wall, Start or Goal, buildMaze(mazeToTemplate(grid)) raises no error and has
\* as many rows as the grid, rows as long as the grid's, and the grid's type at
\* every position.
C14_ExportThenImportKeepsTypes ==
  LET back == buildMaze(mazeToTemplate(mazeData))
  IN Len(mazeData) >= 1 =>
       /\ back.error = ""
       /\ Len(back.maze) = Len(mazeData)
       /\ \A i \in 1..Len(mazeData) :
             /\ Len(back.maze[i]) = Len(mazeData[i])
             /\ \A j \in 1..Len(mazeData[i]) :
                   back.maze[i][j].type = mazeData[i][j].type

\* a grid of two rows with a wall was exported, and the exported file imported
C14_Witness ==
  /\ Len(mazeData) = 2
  /\ \E j \in 1..Len(mazeData[1]) : mazeData[1][j].type = "Wall"
  /\ \E j \in 1..Len(mazeData[2]) : mazeData[2][j].type = "Start"
  /\ fileContent = mazeToTemplate(mazeData)
  /\ mazeData = buildMaze(fileContent).maze

\* a file in which every character is # A B or space, or belongs to a line end
\* (a line feed, or a carriage return right before a line feed)
WellFormed(t) ==
  \A p \in 1..Len(t) :
     \/ t[p] \in {"#", "A", "B", " ", "\n"}
     \/ t[p] = "\r" /\ p < Len(t) /\ t[p + 1] = "\n"

IsNotCarriageReturn(ch) == ch # "\r"

\* the positions of the line feeds of u
LineFeeds(u) == {p \in 1..Len(u) : u[p] = "\n"}

\* the position just before the i-th line of u, and the one just after it
LineStart(u, i) ==
  IF i = 1 THEN 0
  ELSE CHOOSE p \in LineFeeds(u) : Cardinality({q \in LineFeeds(u) : q <= p}) = i - 1

LineEnd(u, i) ==
  IF i = Cardinality(LineFeeds(u)) + 1 THEN Len(u) + 1 ELSE LineStart(u, i + 1)

CellMatches(cell, ch) ==
  \/ ch = "#" /\ cell.type = "Wall" /\ cell.state = "Unreachable"
  \/ ch = "A" /\ cell.type = "Start" /\ cell.state = "Unexplored"
  \/ ch = "B" /\ cell.type = "Goal" /\ cell.state = "Unexplored"
  \/ ch = " " /\ cell.type = "Space" /\ cell.state = "Unexplored"

TypesOf(maze) == [i \in 1..Len(maze) |-> [j \in 1..Len(maze[i]) |-> maze[i][j].type]]

\* C15: buildMaze yields one row per line of the file and maps '#' to a Wall cell
\* in state Unreachable and 'A', 'B', ' ' to a Start, Goal, Space cell in state
\* Unexplored; a file with any other character raises an error and yields no
\* grid, and importing it leaves the grid of the page with the types it had.
C15_BuildMazeMapsCharactersOrFails ==
  LET built == buildMaze(fileContent)
      u == SelectSeq(fileContent, IsNotCarriageReturn)
  IN IF WellFormed(fileContent)
     THEN /\ built.error = ""
          /\ Len(built.maze) = Cardinality(LineFeeds(u)) + 1
          /\ \A i \in 1..Len(built.maze) :
                /\ Len(built.maze[i]) = LineEnd(u, i) - LineStart(u, i) - 1
                /\ \A j \in 1..Len(built.maze[i]) :
                      CellMatches(built.maze[i][j], u[LineStart(u, i) + j])
          /\ updateMazeFromTemplate(Entry, fileContent).mazeData = built.maze
     ELSE /\ built.error # ""
          /\ built.maze = <<>>
          /\ TypesOf(updateMazeFromTemplate(Entry, fileContent).mazeData) = TypesOf(mazeData)

\* a file with a character that is no template character was imported: the page
\* still shows the grid AB, with the labels that the reset before buildMaze left
C15_Witness ==
  /\ ~WellFormed(fileContent)
  /\ \E p \in 1..Len(fileContent) : fileContent[p] = "x"
  /\ TypesOf(mazeData) = <<(<<"Start", "Goal">>)>>
  /\ mazeData[1][1].label = ""

\* how often the character ch occurs in the file t
Occurrences(t, ch) == Cardinality({p \in 1..Len(t) : t[p] = ch})

\* how many cells of the grid have the given type (rows may differ in length)
NumOfType(maze, type) ==
  Cardinality({c \in UNION {{<<i, j>> : j \in 1..Len(maze[i])} : i \in 1..Len(maze)} :
                 maze[c[1]][c[2]].type = type})

Rectangular(maze) == \A i \in 1..Len(maze) : Len(maze[i]) = Len(maze[1])

HasSecondStartOrGoal(t) == Occurrences(t, "A") >= 2 \/ Occurrences(t, "B") >= 2

\* C16: buildMaze raises an error, and produces no grid, for a file that contains
\* a second 'A' or a second 'B'.
C16_SecondStartOrGoalIsBuildError ==
  HasSecondStartOrGoal(fileContent) => buildMaze(fileContent).error # ""

\* C16, as the code has it: for a file of template characters and line ends with a
\* second 'A' or 'B', buildMaze raises no error and returns the grid with a Start
\* cell for every 'A' and a Goal cell for every 'B'; it is the Maze constructor,
\* run by start on that grid (when its rows are equally long), that raises 'only
\* one start/goal allowed': start surfaces the message, creates no runner, leaves
\* the page Ready and the grid as built.
C16_SecondStartOrGoalRejectedAtStart ==
  LET built == buildMaze(fileContent)
      started == start([Entry EXCEPT !.mazeData = built.maze])
  IN (WellFormed(fileContent) /\ HasSecondStartOrGoal(fileContent)) =>
       /\ built.error = ""
       /\ NumOfType(built.maze, "Start") = Occurrences(fileContent, "A")
       /\ NumOfType(built.maze, "Goal") = Occurrences(fileContent, "B")
       /\ Rectangular(built.maze) =>
             /\ started.alertMsg \in {"only one start allowed", "only one goal allowed"}
             /\ ~started.demoRunner
             /\ started.demoState = "Ready"
             /\ started.mazeData = built.maze

\* a file with two 'A' was imported: the page shows a grid with two Start cells
C16_Witness ==
  /\ Occurrences(fileContent, "A") = 2
  /\ mazeData = buildMaze(fileContent).maze
  /\ NumOfType(mazeData, "Start") = 2

----------------------------------------------------------------------------
(* Properties of maze generation (SpecGen) *)

\* C17: whatever width >= 1, height >= 1 and random choices genDFSMaze runs with,
\* the grid of the page afterwards (the one it installed) has exactly one Start
\* cell and exactly one Goal cell.
C17_GeneratedGridHasOneStartAndOneGoal ==
  /\ NumOfType(mazeData, "Start") = 1
  /\ NumOfType(mazeData, "Goal") = 1

\* C18: in every grid that genDFSMaze installs there is a Start cell and a Goal
\* cell, and the Goal cell can be reached from the Start cell by moves between
\* adjacent cells that are not Wall.
C18_GeneratedGoalReachableFromStart ==
  \E s \in CellsOfType(mazeData, "Start") : \E g \in CellsOfType(mazeData, "Goal") :
     StepsToReach(mazeData, {s}, g, 0) >= 0

----------------------------------------------------------------------------
(* Properties of particular searches (SpecSearch) *)

\* C19: on the grid of the template AB with the Queue frontier, after the first
\* step the Start cell is Explored, the Goal cell is Frontier and the outcome is
\* Continue; after the second step the outcome is FoundSolution, the
\* explored-count is 2 and both cells are SolutionPath.
C19_QueueOnTemplateAB ==
  (TypesOf(mazeData) = <<(<<"Start", "Goal">>)>> /\ frontierClass = "QueueFrontier") =>
     /\ numSteps = 1 =>
           /\ StateAt(mazeData, <<0, 0>>) = "Explored"
           /\ StateAt(mazeData, <<0, 1>>) = "Frontier"
           /\ solutionType = "Continue"
     /\ numSteps = 2 =>
           /\ solutionType = "FoundSolution"
           /\ numExplored = 2
           /\ StateAt(mazeData, <<0, 0>>) = "SolutionPath"
           /\ StateAt(mazeData, <<0, 1>>) = "SolutionPath"

\* the second step of the Queue search on AB has been executed
C19_Witness ==
  /\ TypesOf(mazeData) = <<(<<"Start", "Goal">>)>>
  /\ frontierClass = "QueueFrontier"
  /\ numSteps = 2

RECURSIVE ReachableFrom(_, _)
\* the non-wall cells joined to a cell of `reached` by moves between adjacent
\* non-wall cells
ReachableFrom(maze, reached) ==
  LET more == reached \cup {c \in NonWallCells(maze) : \E r \in reached : Adjacent(c, r)}
  IN IF more = reached THEN reached ELSE ReachableFrom(maze, more)

\* C20: on a grid whose Goal cannot be reached from Start, under each of the four
\* frontiers, the search never finds a solution and ends, after one step per
\* reachable cell and one more, in NoSolution with the explored-count equal to
\* the number of non-wall cells reachable from Start, exactly those cells in
\* state Explored, and no cell in state Frontier or SolutionPath.
C20_UnreachableGoalEndsInNoSolution ==
  (demoRunner /\ ShortestPathLength(mazeData) = -1) =>
     LET reachable == ReachableFrom(mazeData, CellsOfType(mazeData, "Start"))
     IN /\ solutionType # "FoundSolution"
        /\ numSteps > Cardinality(reachable) => Terminal
        /\ Terminal =>
              /\ solutionType = "NoSolution"
              /\ numExplored = Cardinality(reachable)
              /\ CellsInState(mazeData, "Explored") = reachable
              /\ CellsInState(mazeData, "Frontier") = {}
              /\ CellsInState(mazeData, "SolutionPath") = {}

\* a search with the A* frontier has ended in NoSolution on a grid with walls
\* where four cells can be reached from Start and the Goal cannot
C20_Witness ==
  /\ demoRunner
  /\ ShortestPathLength(mazeData) = -1
  /\ frontierClass = "AStarFrontier"
  /\ solutionType = "NoSolution"
  /\ numExplored = 4

----------------------------------------------------------------------------
(* Properties of the strategies compared (SpecSearch) *)

\* the number of moves from the Start cell to cell c, -1 if there is no way
FromStart(maze, c) == StepsToReach(maze, CellsOfType(maze, "Start"), c, 0)

\* two distinct shortest ways from Start to Goal exist iff some cell that lies on
\* a shortest way can be entered from two cells that are one move nearer to Start
TwoShortestPaths(maze) ==
  LET goal == CHOOSE c \in GridCells(maze) : TypeAt(maze, c) = "Goal"
      length == FromStart(maze, goal)
  IN /\ length >= 0
     /\ \E c \in NonWallCells(maze) :
           /\ FromStart(maze, c) >= 1
           /\ FromStart(maze, c) + StepsToReach(maze, {c}, goal, 0) = length
           /\ StepsToReach(maze, {c}, goal, 0) >= 0
           /\ Cardinality({p \in NonWallCells(maze) :
                             /\ Adjacent(p, c)
                             /\ FromStart(maze, p) = FromStart(maze, c) - 1}) >= 2

RECURSIVE RunToEnd(_)
\* timer ticks until the outcome is terminal
RunToEnd(w) == IF w.solutionType # "Continue" THEN w ELSE RunToEnd(demoRunnerFn(w))

\* the explored-count at the end of the search that the given frontier class
\* makes on the grid the running search was started on
ExploredAtEnd(class) ==
  RunToEnd(start([reset(Entry) EXCEPT !.mazeData = GridAtStart,
                                      !.currAlgorithm = class])).numExplored

\* C21: on every grid with at least two distinct shortest ways from Start to
\* Goal, the explored-count at the end of the Stack search differs from the
\* explored-count at the end of the Queue search.
C21_StackAndQueueCountsDiffer ==
  (Terminal /\ frontierClass = "StackFrontier" /\ TwoShortestPaths(mazeData)) =>
     numExplored # ExploredAtEnd("QueueFrontier")

\* a grid of two rows and two columns without walls, Start and Goal in opposite
\* corners
OpenSquare(maze) ==
  /\ Len(maze) = 2
  /\ Len(maze[1]) = 2
  /\ CellsOfType(maze, "Wall") = {}
  /\ \A s \in CellsOfType(maze, "Start") : \A g \in CellsOfType(maze, "Goal") :
        ~Adjacent(s, g)

\* C21, as the code has it: on the grids of two rows and two columns with two
\* shortest ways (no wall, Start and Goal in opposite corners) the Stack search
\* ends with explored-count 3 and the Queue search with explored-count 4.  On
\* larger grids with two shortest ways the two counts can be equal.
C21_StackAndQueueCountsOnOpenSquare ==
  (Terminal /\ OpenSquare(mazeData)) =>
     /\ TwoShortestPaths(mazeData)
     /\ frontierClass = "StackFrontier" =>
           numExplored = 3 /\ ExploredAtEnd("QueueFrontier") = 4
     /\ frontierClass = "QueueFrontier" =>
           numExplored = 4 /\ ExploredAtEnd("StackFrontier") = 3

\* the Stack search has ended on such a grid
C21_Witness ==
  /\ Terminal
  /\ OpenSquare(mazeData)
  /\ frontierClass = "StackFrontier"
  /\ numExplored = 3
----------------------------------------------------------------------------
(* Properties of the timer and the runner (Spec) *)

\* C22: under the enabling rules of the buttons there is at most one interval
\* timer, it is the one whose handle the page holds, it exists exactly when
\* demoState is Running, and it only ever fires the one runner of the page
C22_OneTimerExactlyWhenRunning ==
  /\ Cardinality(timers) <= 1
  /\ timers \subseteq {interval}
  /\ (timers # {}) <=> (demoState = "Running")
  /\ (timers # {}) => demoRunner

\* a paused search with a runner that has stepped, which resume re-arms with one timer
C22_Witness ==
  /\ demoState = "Paused"
  /\ demoRunner
  /\ numSteps >= 1
  /\ timers = {}
  /\ Cardinality(resume(Entry).timers) = 1
----------------------------------------------------------------------------
(* Properties of the steps of a search (SpecStepping), of solve (SpecSearch) *)

\* a step is invoked by the runner only, and only while the outcome is Continue
StepInvoked == demoRunner /\ solutionType = "Continue"

\* the nodes of frontier fr that existed before the step, by id
OldIds(fr) == FrontierIds(fr) \cap (1..Len(nodes))

\* C23: a step invoked on a non-empty frontier takes exactly one node out of
\* it, the node it returns, and adds 1 to the explored-count; when that node
\* is not at the goal its cell becomes Explored; and nothing the page does
\* within one search (tick, Next, Pause, Resume) lowers the explored-count
C23_StepRemovesOneNodeAndCountsIt ==
  /\ (StepInvoked /\ frontier # <<>>) =>
        LET after == solveNext(Entry)
        IN /\ Cardinality(FrontierIds(frontier)) = Len(frontier)
           /\ Cardinality(FrontierIds(after.frontier)) = Len(after.frontier)
           /\ after.node.id \in FrontierIds(frontier)
           /\ OldIds(after.frontier) = FrontierIds(frontier) \ {after.node.id}
           /\ after.numExplored = numExplored + 1
           /\ (after.node.state # m_goal) =>
                 StateAt(after.mazeData, after.node.state) = "Explored"
  /\ demoRunner =>
        \A after \in {demoRunnerFn(Entry), next(Entry), pause(Entry), resume(Entry)} :
           after.numExplored >= numExplored

\* a step on a frontier of several nodes, after earlier steps, that removes a
\* node which is not at the goal
C23_Witness ==
  /\ StepInvoked
  /\ Len(frontier) >= 2
  /\ numExplored >= 1
  /\ solveNext(Entry).node.state # m_goal
  /\ solveNext(Entry).numExplored = numExplored + 1
\* C24: a step invoked on an empty frontier sets the outcome to NoSolution
\* and leaves explored-count, every cell, the frontier and the nodes as they
\* were; it removes nothing, so no remove() ever fails; and a step ends in
\* NoSolution exactly when it found the frontier empty
C24_StepOnEmptyFrontierIsNoSolution ==
  /\ removeError = ""
  /\ (solutionType = "NoSolution") => (frontier = <<>>)
  /\ StepInvoked =>
        LET after == solveNext(Entry)
        IN /\ after.removeError = ""
           /\ (after.solutionType = "NoSolution") <=> (frontier = <<>>)
           /\ (frontier = <<>>) =>
                 /\ after.numExplored = numExplored
                 /\ after.mazeData = mazeData
                 /\ after.frontier = frontier
                 /\ after.nodes = nodes
                 /\ after.node = node
                 /\ after = [Entry EXCEPT !.solutionType = "NoSolution",
                                          !.numSteps = numSteps + 1]

\* a step on a frontier that ran empty after several cells were explored
C24_Witness ==
  /\ StepInvoked
  /\ frontier = <<>>
  /\ numExplored >= 2
  /\ solveNext(Entry).solutionType = "NoSolution"
\* the action that leads from cell `from` to the 4-adjacent cell `to`
ActionBetween(from, to) ==
  CASE to[1] = from[1] - 1 -> "Up"
    [] to[1] = from[1] + 1 -> "Down"
    [] to[2] = from[2] - 1 -> "Left"
    [] to[2] = from[2] + 1 -> "Right"

ActionRank(a) == CASE a = "Up" -> 1 [] a = "Down" -> 2 [] a = "Left" -> 3 [] a = "Right" -> 4

\* the states a step that removes node n from frontier fr over grid maze is to
\* add: the non-wall cells next to n that no other node of fr is at and that
\* are not Explored
StatesToAdd(maze, fr, n) ==
  { s \in NonWallCells(maze) :
      /\ Adjacent(s, n.state)
      /\ \A k \in 1..Len(fr) : fr[k].id # n.id => fr[k].state # s
      /\ StateAt(maze, s) # "Explored" }

\* C25: a step that expands a non-goal node n creates one child for exactly
\* the neighbors of n that are neither in the frontier nor Explored, in the
\* order Up, Down, Left, Right; each child has parent n, path cost one above
\* n's and the Manhattan distance to the goal, is in the frontier, and its
\* cell is in state Frontier; every cell other than n's and the children's
\* keeps its state and label, and no cell changes its type
C25_ExpansionAddsTheNewNeighbors ==
  (StepInvoked /\ frontier # <<>> /\ solveNext(Entry).node.state # m_goal) =>
    LET after == solveNext(Entry)
        n == after.node
        created == SubSeq(after.nodes, Len(nodes) + 1, Len(after.nodes))
        toAdd == StatesToAdd(mazeData, frontier, n)
    IN /\ SubSeq(after.nodes, 1, Len(nodes)) = nodes
       /\ Len(created) = Cardinality(toAdd)
       /\ {created[k].state : k \in 1..Len(created)} = toAdd
       /\ \A k \in 1..Len(created) :
             /\ created[k].id = Len(nodes) + k
             /\ created[k].parent = n.id
             /\ created[k].pathCost = n.pathCost + 1
             /\ created[k].manhattanDistance =
                  Abs(created[k].state[1] - m_goal[1]) + Abs(created[k].state[2] - m_goal[2])
             /\ created[k].action = ActionBetween(n.state, created[k].state)
             /\ created[k] \in FrontierNodes(after.frontier)
             /\ StateAt(after.mazeData, created[k].state) = "Frontier"
       /\ \A j \in 1..Len(created) : \A k \in 1..Len(created) :
             j < k => ActionRank(created[j].action) < ActionRank(created[k].action)
       /\ FrontierIds(after.frontier) =
            (FrontierIds(frontier) \ {n.id}) \cup {created[k].id : k \in 1..Len(created)}
       /\ Len(after.frontier) = Len(frontier) - 1 + Len(created)
       /\ \A c \in GridCells(mazeData) :
             /\ TypeAt(after.mazeData, c) = TypeAt(mazeData, c)
             /\ (c # n.state /\ c \notin toAdd) =>
                   after.mazeData[c[1] + 1][c[2] + 1] = mazeData[c[1] + 1][c[2] + 1]

\* an expansion that adds a child and passes over a neighbor that is
\* Explored and a neighbor that another node of the frontier is at
C25_Witness ==
  /\ StepInvoked
  /\ frontier # <<>>
  /\ LET after == solveNext(Entry)
         n == after.node
     IN /\ n.state # m_goal
        /\ Len(after.nodes) > Len(nodes)
        /\ \E s \in NonWallCells(mazeData) :
              Adjacent(s, n.state) /\ StateAt(mazeData, s) = "Explored"
        /\ \E s \in NonWallCells(mazeData) :
              /\ Adjacent(s, n.state)
              /\ \E k \in 1..Len(frontier) : frontier[k].id # n.id /\ frontier[k].state = s
\* C26: right after solve on a grid with one Start and one Goal the frontier
\* holds one node, the root: at the Start cell, without parent or action, with
\* path cost 0 and the Manhattan distance from Start to Goal; the Start cell
\* is in state Frontier with its type and label as before, every other cell
\* is as before, the outcome is Continue and the explored-count is 0
C26_SolveStartsFromTheRootAlone ==
  (/\ demoState = "Ready"
   /\ Cardinality(CellsOfType(mazeData, "Start")) = 1
   /\ Cardinality(CellsOfType(mazeData, "Goal")) = 1) =>
    LET after == start(Entry)
        s == CHOOSE c \in CellsOfType(mazeData, "Start") : TRUE
        g == CHOOSE c \in CellsOfType(mazeData, "Goal") : TRUE
    IN /\ after.alertMsg = ""
       /\ Len(after.frontier) = 1
       /\ after.nodes = after.frontier
       /\ after.frontier[1].state = s
       /\ after.frontier[1].parent = 0
       /\ after.frontier[1].action = "null"
       /\ after.frontier[1].pathCost = 0
       /\ after.frontier[1].manhattanDistance = Abs(s[1] - g[1]) + Abs(s[2] - g[2])
       /\ after.frontierClass = currAlgorithm
       /\ after.mazeData[s[1] + 1][s[2] + 1] =
            [mazeData[s[1] + 1][s[2] + 1] EXCEPT !.state = "Frontier"]
       /\ \A c \in GridCells(mazeData) \ {s} :
             after.mazeData[c[1] + 1][c[2] + 1] = mazeData[c[1] + 1][c[2] + 1]
       /\ after.solutionType = "Continue"
       /\ after.numExplored = 0

\* the state solve leaves on a grid with a wall whose Goal is not next to Start
C26_Witness ==
  /\ demoRunner
  /\ numSteps = 0
  /\ solutionType = "Continue"
  /\ Len(frontier) = 1
  /\ frontier[1].manhattanDistance >= 2
  /\ CellsOfType(mazeData, "Wall") # {}
  /\ CellsInState(mazeData, "Frontier") = {frontier[1].state}
----------------------------------------------------------------------------
(* Properties of the binary heap (SpecFrontier) *)

HeapClasses == {"GreedBestFrontier", "AStarFrontier"}

\* the integer key the comparator of a heap frontier orders nodes by
Key(class, n) ==
  IF class = "GreedBestFrontier" THEN n.manhattanDistance
  ELSE n.pathCost + n.manhattanDistance

\* heap[i] never precedes its parent heap[(i - 1) div 2], for every i > 0
\* (heap[i] is the element heap[i + 1] of the sequence)
HeapProperty(class, heap) ==
  \A i \in 1..(Len(heap) - 1) :
     ~(Key(class, heap[i + 1]) < Key(class, heap[((i - 1) \div 2) + 1]))

RootIsMinimum(class, heap) ==
  \A k \in 1..Len(heap) : Key(class, heap[1]) <= Key(class, heap[k])

\* the nodes a caller can push next
NodesToPush ==
  { NewNode(Len(nodes) + 1, <<0, Len(nodes)>>, 0, "null", key[1], key[2]) :
      key \in { p \in (0..MaxKey) \X (0..MaxKey) : p[1] + p[2] <= MaxKey } }

\* C27: after any sequence of push and pop no element of the heap precedes
\* its parent, so the root is a minimum; a further push yields a heap with
\* exactly one more element, the pushed one; a pop yields a heap without
\* exactly the element it returns, which was the root
C27_HeapPropertyAfterPushAndPop ==
  frontierClass \in HeapClasses =>
    /\ HeapProperty(frontierClass, frontier)
    /\ RootIsMinimum(frontierClass, frontier)
    /\ \A n \in NodesToPush :
          LET pushed == PQpush(frontierClass, frontier, n)
          IN /\ Len(pushed) = Len(frontier) + 1
             /\ FrontierNodes(pushed) = FrontierNodes(frontier) \cup {n}
             /\ HeapProperty(frontierClass, pushed)
    /\ (frontier # <<>>) =>
          LET popped == PQpop(frontierClass, frontier)
          IN /\ popped.value = frontier[1]
             /\ RemovedExactly(frontier, popped.value, popped.heap)
             /\ HeapProperty(frontierClass, popped.heap)

\* a heap of three levels' worth of pushes after a pop, holding unequal keys
C27_Witness ==
  /\ frontierClass \in HeapClasses
  /\ node # UndefinedNode
  /\ Len(frontier) >= 3
  /\ \E k \in 1..Len(frontier) :
        Key(frontierClass, frontier[k]) > Key(frontierClass, frontier[1])
----------------------------------------------------------------------------
(* Properties of the cells of the page (Spec) *)

\* what a search can do next: Start, Next, or a tick of the timer
SearchHandlers ==
  (IF demoState = "Ready" THEN {start(Entry)} ELSE {})
    \cup (IF demoState \in {"Ready", "Paused"} THEN {next(Entry)} ELSE {})
    \cup (IF timers # {} THEN {demoRunnerFn(Entry)} ELSE {})

\* C28: in every state of the page, whatever drawing, loading, searching and
\* resetting led to it, a cell is in state Unreachable exactly when its type
\* is Wall, and nothing a search does changes a Wall cell
C28_UnreachableExactlyTheWalls ==
  /\ \A c \in GridCells(mazeData) :
        (StateAt(mazeData, c) = "Unreachable") <=> (TypeAt(mazeData, c) = "Wall")
  /\ \A after \in SearchHandlers :
        \A c \in CellsOfType(mazeData, "Wall") :
           after.mazeData[c[1] + 1][c[2] + 1] = mazeData[c[1] + 1][c[2] + 1]

\* a search that has explored a cell on a grid into which a wall was drawn
C28_Witness ==
  /\ demoRunner
  /\ numExplored >= 1
  /\ CellsOfType(mazeData, "Wall") # {}
  /\ CellsInState(mazeData, "Unreachable") = CellsOfType(mazeData, "Wall")
  /\ SearchHandlers # {}
----------------------------------------------------------------------------
(* Properties of the nodes of a search (SpecStepping) *)

\* the nodes created so far that are no longer in the frontier, by id
RemovedIds == (1..Len(nodes)) \ FrontierIds(frontier)

\* C29: in every state of a search, under each strategy: no two nodes of the
\* frontier are at the same state; no two nodes ever created are at the same
\* state, so no state is added again after it was removed and its cell marked
\* Explored, and none is removed twice; a step creates no node on an Explored
\* cell; the frontier and the explored-count are at most the number of
\* non-wall cells
C29_EachStateInTheFrontierAtMostOnce ==
  demoRunner =>
    /\ \A j \in 1..Len(frontier) : \A k \in 1..Len(frontier) :
          j # k => frontier[j].state # frontier[k].state
    /\ \A j \in 1..Len(nodes) : \A k \in 1..Len(nodes) :
          j # k => nodes[j].state # nodes[k].state
    /\ FrontierNodes(frontier) \subseteq {nodes[k] : k \in 1..Len(nodes)}
    /\ \A k \in 1..Len(frontier) : StateAt(mazeData, frontier[k].state) # "Explored"
    /\ \A id \in RemovedIds :
          StateAt(mazeData, nodes[id].state) \in {"Explored", "SolutionPath"}
    /\ StepInvoked =>
          LET after == solveNext(Entry)
          IN \A k \in (Len(nodes) + 1)..Len(after.nodes) :
                /\ StateAt(mazeData, after.nodes[k].state) # "Explored"
                /\ after.nodes[k].state # after.node.state
    /\ Cardinality(RemovedIds) = numExplored
    /\ Len(frontier) <= Cardinality(NonWallCells(mazeData))
    /\ numExplored <= Cardinality(NonWallCells(mazeData))

\* a search that ended after removing every one of at least five non-wall
\* cells once
C29_Witness ==
  /\ demoRunner
  /\ Terminal
  /\ Cardinality(NonWallCells(mazeData)) >= 5
  /\ numExplored = Cardinality(NonWallCells(mazeData))
  /\ Cardinality(RemovedIds) = numExplored
\* C30: every node created in a search hangs in a tree under the root: its
\* parent was created before it; its parent chain has exactly path-cost links
\* and ends at the root, the one node without parent, at the Start cell with
\* path cost 0; consecutive states of the chain are 4-adjacent non-wall
\* cells and no state occurs twice on it; and when a step creates a node
\* the cell of each of its proper ancestors is Explored
C30_NodesFormATreeUnderTheRoot ==
  demoRunner =>
    /\ Len(nodes) >= 1
    /\ nodes[1].parent = 0 /\ nodes[1].pathCost = 0
    /\ TypeAt(mazeData, nodes[1].state) = "Start"
    /\ \A k \in 1..Len(nodes) : nodes[k].id = k
    /\ \A k \in 2..Len(nodes) : nodes[k].parent \in 1..(k - 1)
    /\ \A k \in 1..Len(nodes) :
          LET chain == ParentChain(nodes[k])
          IN /\ Len(chain) = nodes[k].pathCost + 1
             /\ chain[Len(chain)] = nodes[1].state
             /\ \A i \in 1..Len(chain) : TypeAt(mazeData, chain[i]) # "Wall"
             /\ \A i \in 1..(Len(chain) - 1) : Adjacent(chain[i], chain[i + 1])
             /\ \A i \in 1..Len(chain) : \A j \in 1..Len(chain) :
                   i # j => chain[i] # chain[j]
             /\ (solutionType = "Continue") =>
                   \A i \in 2..Len(chain) : StateAt(mazeData, chain[i]) = "Explored"
    /\ StepInvoked =>
          LET after == solveNext(Entry)
          IN \A k \in (Len(nodes) + 1)..Len(after.nodes) :
                /\ after.nodes[k].parent = after.node.id
                /\ \A s \in {ParentChain(after.node)[i] : i \in 1..Len(ParentChain(after.node))} :
                      StateAt(after.mazeData, s) = "Explored"

\* a node five links below the root whose chain bends, created by the last step
C30_Witness ==
  /\ demoRunner
  /\ solutionType = "Continue"
  /\ node # UndefinedNode
  /\ nodes[Len(nodes)].parent = node.id
  /\ nodes[Len(nodes)].pathCost >= 5
  /\ nodes[Len(nodes)].pathCost >
       Abs(nodes[Len(nodes)].state[1] - m_start[1]) + Abs(nodes[Len(nodes)].state[2] - m_start[2])
  /\ Len(ParentChain(nodes[Len(nodes)])) = nodes[Len(nodes)].pathCost + 1
----------------------------------------------------------------------------
(* Properties of the labels (SpecStepping) *)

LabelAt(maze, c) == maze[c[1] + 1][c[2] + 1].label

Digit(d) ==
  CASE d = 0 -> "0" [] d = 1 -> "1" [] d = 2 -> "2" [] d = 3 -> "3" [] d = 4 -> "4"
    [] d = 5 -> "5" [] d = 6 -> "6" [] d = 7 -> "7" [] d = 8 -> "8" [] d = 9 -> "9"

RECURSIVE Decimal(_)
\* the decimal numeral of a natural number
Decimal(n) == IF n < 10 THEN Digit(n) ELSE Decimal(n \div 10) \o Digit(n % 10)

\* the label a strategy shows for a node
LabelFor(class, n) ==
  IF class \in {"StackFrontier", "QueueFrontier"} THEN ""
  ELSE IF class = "GreedBestFrontier" THEN Decimal(n.manhattanDistance)
  ELSE Decimal(n.pathCost) \o "+" \o Decimal(n.manhattanDistance)

\* C31: a step gives the cell of each child it adds the label of the child
\* under the strategy: "" for Stack and Queue, the decimal h for Greedy,
\* "<path cost>+<h>" for A*, and leaves every other label; so during a search
\* the cell of every node but the root carries that node's label and the
\* Start cell's label is as it was when the search began; reset clears every
\* label
C31_ChildCellsCarryTheStrategysLabel ==
  /\ demoRunner =>
        /\ LabelAt(mazeData, m_start) = NoLabel
        /\ \A k \in 2..Len(nodes) :
              LabelAt(mazeData, nodes[k].state) = LabelFor(frontierClass, nodes[k])
  /\ (StepInvoked /\ frontier # <<>>) =>
        LET after == solveNext(Entry)
            childStates == {after.nodes[k].state : k \in (Len(nodes) + 1)..Len(after.nodes)}
        IN /\ \A k \in (Len(nodes) + 1)..Len(after.nodes) :
                 LabelAt(after.mazeData, after.nodes[k].state) =
                   LabelFor(frontierClass, after.nodes[k])
           /\ \A c \in GridCells(mazeData) \ childStates :
                 LabelAt(after.mazeData, c) = LabelAt(mazeData, c)
  /\ \A c \in GridCells(mazeData) : LabelAt(reset(Entry).mazeData, c) = ""

\* an A* search whose last step labelled a child two or more moves from Start
C31_Witness ==
  /\ demoRunner
  /\ frontierClass = "AStarFrontier"
  /\ Len(nodes) >= 3
  /\ nodes[Len(nodes)].pathCost >= 2
  /\ nodes[Len(nodes)].manhattanDistance >= 1
  /\ LabelAt(mazeData, nodes[Len(nodes)].state) =
       Decimal(nodes[Len(nodes)].pathCost) \o "+" \o Decimal(nodes[Len(nodes)].manhattanDistance)
  /\ LabelAt(mazeData, m_start) = NoLabel
----------------------------------------------------------------------------
(* Properties of the outcome (SpecSearch) *)

\* C32: under each of the four strategies, on every valid grid, a search that
\* has ended has found a solution exactly when the Goal can be reached from
\* Start by moves between 4-adjacent non-wall cells, and has ended in
\* NoSolution exactly when it cannot
C32_FoundExactlyWhenGoalReachable ==
  (demoRunner /\ Terminal) =>
    /\ (solutionType = "FoundSolution") <=> (ShortestPathLength(mazeData) # -1)
    /\ (solutionType = "NoSolution") <=> (ShortestPathLength(mazeData) = -1)

\* a greedy search that found a Goal lying behind walls, more moves away than
\* its Manhattan distance
C32_Witness ==
  /\ demoRunner
  /\ solutionType = "FoundSolution"
  /\ frontierClass = "GreedBestFrontier"
  /\ CellsOfType(mazeData, "Wall") # {}
  /\ ShortestPathLength(mazeData) >
       Abs(m_start[1] - m_goal[1]) + Abs(m_start[2] - m_goal[2])
\* C33: with the A* frontier every node removed from the frontier has a path
\* cost equal to the least number of moves from Start to its state
C33_AStarRemovesAtShortestDistance ==
  (demoRunner /\ frontierClass = "AStarFrontier" /\ node # UndefinedNode) =>
    node.pathCost = FromStart(mazeData, node.state)
----------------------------------------------------------------------------
(* Properties of the cell states during a search (SpecStepping) *)

\* C34: after solve and after every step of a search, the terminal one
\* included, the cells in state Frontier are exactly the cells that the
\* nodes in the frontier are at
C34_FrontierCellsAreTheFrontierStates ==
  demoRunner =>
    CellsInState(mazeData, "Frontier") = {frontier[k].state : k \in 1..Len(frontier)}

\* a search that found the Goal while other nodes were still in the frontier
C34_Witness ==
  /\ demoRunner
  /\ solutionType = "FoundSolution"
  /\ Len(frontier) >= 2
  /\ Cardinality(CellsInState(mazeData, "Frontier")) = Len(frontier)
----------------------------------------------------------------------------
(* Properties of the explored-count (SpecSearch) *)

\* C35: while the outcome is Continue and when it is NoSolution the
\* explored-count is the number of cells in state Explored; when it is
\* FoundSolution it is the number of cells in state Explored or SolutionPath
C35_ExploredCountCountsExploredCells ==
  demoRunner =>
    /\ solutionType \in {"Continue", "NoSolution"} =>
          numExplored = Cardinality(CellsInState(mazeData, "Explored"))
    /\ solutionType = "FoundSolution" =>
          numExplored = Cardinality(CellsInState(mazeData, "Explored")
                                      \cup CellsInState(mazeData, "SolutionPath"))

\* a found solution with explored cells both on and off the solution path
C35_Witness ==
  /\ demoRunner
  /\ solutionType = "FoundSolution"
  /\ Cardinality(CellsInState(mazeData, "Explored")) >= 2
  /\ Cardinality(CellsInState(mazeData, "SolutionPath")) >= 3
  /\ numExplored = Cardinality(CellsInState(mazeData, "Explored"))
                     + Cardinality(CellsInState(mazeData, "SolutionPath"))
----------------------------------------------------------------------------
(* Properties of demoState (Spec) *)

\* what the page can do next without calling reset: the search handlers, Pause,
\* Resume and a mouse press on a cell
HandlersButReset ==
  SearchHandlers
    \cup (IF demoState = "Running" THEN {pause(Entry)} ELSE {})
    \cup (IF demoState = "Paused" THEN {resume(Entry)} ELSE {})
    \cup {drawCell(Entry, i, j) : i \in 1..Len(mazeData), j \in 1..Len(mazeData[1])}

\* C36: under the enabling rules of the buttons demoState is Done exactly
\* when the outcome is FoundSolution or NoSolution; the tick or Next that
\* makes the outcome terminal sets Done and leaves no timer armed; and in
\* Done nothing but the handlers that call reset changes demoState
C36_DoneExactlyWhenTerminal ==
  /\ (demoState = "Done") <=> Terminal
  /\ \A after \in HandlersButReset :
        /\ (after.demoState = "Done") <=> (after.solutionType \in {"FoundSolution", "NoSolution"})
        /\ (after.demoState = "Done") => (after.timers = {})
        /\ (demoState = "Done") => (after.demoState = "Done")

\* a paused search that the next press of Next ends with a found solution
C36_Witness ==
  /\ demoState = "Paused"
  /\ demoRunner
  /\ numSteps >= 1
  /\ next(Entry).solutionType = "FoundSolution"
  /\ next(Entry).demoState = "Done"
\* C37: whenever demoState is Running or Paused a runner exists and the
\* outcome is Continue; a start attempt that is rejected, from the Start
\* button or from the Next button, leaves demoState Ready
C37_RunningOrPausedHasARunner ==
  /\ demoState \in {"Running", "Paused"} => (demoRunner /\ solutionType = "Continue")
  /\ \A after \in SearchHandlers : (after.alertMsg # "") => (after.demoState = "Ready")
----------------------------------------------------------------------------
(* Properties of the cell types (Spec) *)

Types(maze) == [i \in 1..Len(maze) |-> [j \in 1..Len(maze[i]) |-> maze[i][j].type]]

\* what the handlers that call reset can leave
ResetHandlers ==
  {reset(Entry)}
    \cup {onAlgorithmChange(Entry, class) : class \in FrontierClasses}
    \cup {loadEmptyMaze(Entry, size[1], size[2]) :
            size \in {p \in (1..AppCells) \X (1..AppCells) : p[1] * p[2] <= AppCells}}

\* C38: start, Next and the timer callback change no cell's type; a mouse
\* press changes a type only in Ready with a brush selected; so as long as
\* one runner exists, whatever the page does, the types of all cells stay
\* as they are, with Start and Goal where the runner's Maze holds them
C38_TypesFixedWhileARunnerExists ==
  /\ \A after \in SearchHandlers : Types(after.mazeData) = Types(mazeData)
  /\ \A i \in 1..Len(mazeData) : \A j \in 1..Len(mazeData[i]) :
        Types(drawCell(Entry, i, j).mazeData) # Types(mazeData) =>
          (demoState = "Ready" /\ brush # "null")
  /\ demoRunner =>
        /\ CellsOfType(mazeData, "Start") = {m_start}
        /\ CellsOfType(mazeData, "Goal") = {m_goal}
        /\ \A after \in HandlersButReset \cup ResetHandlers :
              after.demoRunner => Types(after.mazeData) = Types(mazeData)

\* a search under way on a grid into which a wall was drawn, where pressing
\* the mouse on a cell changes nothing
C38_Witness ==
  /\ demoRunner
  /\ solutionType = "Continue"
  /\ numSteps >= 1
  /\ CellsOfType(mazeData, "Wall") # {}
  /\ \A i \in 1..Len(mazeData) : \A j \in 1..Len(mazeData[i]) :
        drawCell(Entry, i, j).mazeData = mazeData
----------------------------------------------------------------------------
(* Properties of preset loading (SpecLoad) *)

\* C39: once every loadMaze call made so far has completed, two or more of
\* them, the grid of the page is the grid of the call made last, in whatever
\* order the responses arrived; and a response that arrives while a search is
\* Running leaves no timer armed, no runner and demoState Ready
C39_LastRequestedPresetIsInstalled ==
  /\ (Len(fetches) >= 2 /\ \A k \in 1..Len(fetches) : fetches[k].done) =>
        Types(mazeData) = Types(buildMaze(PresetText(fetches[Len(fetches)].url)).maze)
  /\ \A k \in 1..Len(fetches) :
        (~fetches[k].done /\ demoState = "Running") =>
           LET after == loadMazeResume(Entry, k)
           IN after.timers = {} /\ ~after.demoRunner /\ after.demoState = "Ready"

====
